---- MODULE Spec2Model ----
(***************************************************************************)
(* Model of the descriptor crate: the Describe contract as generated by    *)
(* descriptor_derive for struct declarations, the built-in container       *)
(* adapters, and the table renderer Describer::describe_list_internal.     *)
(*                                                                         *)
(* Strings are sequences of one-character strings.  The character "^"      *)
(* stands for the byte 0x1B (ESC).  All characters are ASCII, so the byte  *)
(* length str.len() is the sequence length.                                *)
(***************************************************************************)
EXTENDS Integers, Sequences, FiniteSets, TLC

(***************************************************************************)
(* Bounds of the explored inputs.                                          *)
(***************************************************************************)
\* longest item list handed to a table render
MaxItems == 2
\* longest Vec value held by a field
MaxVec == 2
\* longest caller-supplied header list
MaxOverride == 2
\* longest item list an object render picks its value from
MaxObjects == 1
\* most entries of a HashMap value held by a field
MaxMap == 2

(***************************************************************************)
(* String helpers.                                                         *)
(***************************************************************************)
ESC == "^"

Spaces(n) == [i \in 1..n |-> " "]

Max2(a, b) == IF a >= b THEN a ELSE b

LowerLetters == <<"a","b","c","d","e","f","g","h","i","j","k","l","m",
                  "n","o","p","q","r","s","t","u","v","w","x","y","z">>

UpperLetters == <<"A","B","C","D","E","F","G","H","I","J","K","L","M",
                  "N","O","P","Q","R","S","T","U","V","W","X","Y","Z">>

\* char::to_uppercase on ASCII
ToUpperChar(c) ==
  IF \E i \in 1..26 : LowerLetters[i] = c
  THEN UpperLetters[CHOOSE i \in 1..26 : LowerLetters[i] = c]
  ELSE c

\* char::to_lowercase on ASCII
ToLowerChar(c) ==
  IF \E i \in 1..26 : UpperLetters[i] = c
  THEN LowerLetters[CHOOSE i \in 1..26 : UpperLetters[i] = c]
  ELSE c

\* index of the first occurrence of c in s, 0 when absent
IndexOf(s, c) ==
  IF \E i \in 1..Len(s) : s[i] = c
  THEN CHOOSE i \in 1..Len(s) : s[i] = c /\ \A j \in 1..(i - 1) : s[j] # c
  ELSE 0

\* index of the last occurrence of c in s, 0 when absent
LastIndexOf(s, c) ==
  IF \E i \in 1..Len(s) : s[i] = c
  THEN CHOOSE i \in 1..Len(s) : s[i] = c /\ \A j \in (i + 1)..Len(s) : s[j] # c
  ELSE 0

\* str::split on one character: the pieces between the separators
RECURSIVE SplitOn(_, _)
SplitOn(s, c) ==
  LET i == IndexOf(s, c)
  IN IF i = 0 THEN <<s>>
     ELSE <<SubSeq(s, 1, i - 1)>> \o SplitOn(SubSeq(s, i + 1, Len(s)), c)

\* [T]::join with a separator string
RECURSIVE Join(_, _)
Join(parts, sep) ==
  IF Len(parts) = 0 THEN <<>>
  ELSE IF Len(parts) = 1 THEN parts[1]
  ELSE parts[1] \o sep \o Join(Tail(parts), sep)

\* concatenation of a sequence of sequences
RECURSIVE Flatten(_)
Flatten(ss) == IF Len(ss) = 0 THEN <<>> ELSE ss[1] \o Flatten(Tail(ss))

\* the elements of s that satisfy the predicate given as a set of indices
RECURSIVE SelectIdx(_, _, _)
SelectIdx(s, keep, i) ==
  IF i > Len(s) THEN <<>>
  ELSE (IF i \in keep THEN <<s[i]>> ELSE <<>>) \o SelectIdx(s, keep, i + 1)

\* convert_case: to_case(Case::UpperSnake).  Words are split at "_", "-" and
\* " " (a "." is no word boundary), empty words are dropped, each word is
\* upper-cased and the words are joined by "_".  The strings of the model
\* hold lower-case letters only, so no case boundary splits a word.
RECURSIVE Words(_)
Words(s) ==
  LET cut == {i \in 1..Len(s) : s[i] \in {"_", "-", " "}}
  IN IF cut = {} THEN (IF Len(s) = 0 THEN <<>> ELSE <<s>>)
     ELSE LET i == CHOOSE k \in cut : \A j \in cut : k <= j
          IN (IF i = 1 THEN <<>> ELSE <<SubSeq(s, 1, i - 1)>>)
             \o Words(SubSeq(s, i + 1, Len(s)))

UpperSnake(s) ==
  Join([k \in 1..Len(Words(s)) |->
          [j \in 1..Len(Words(s)[k]) |-> ToUpperChar(Words(s)[k][j])]],
       <<"_">>)

\* convert_case: to_case(Case::Title).  The same words, each with its first
\* letter upper-cased and the rest lower-cased, joined by " ".
Title(s) ==
  Join([k \in 1..Len(Words(s)) |->
          [j \in 1..Len(Words(s)[k]) |->
             IF j = 1 THEN ToUpperChar(Words(s)[k][j])
             ELSE ToLowerChar(Words(s)[k][j])]],
       <<" ">>)

\* Ord for String: byte-wise lexicographic order, a proper prefix first.
\* The keys of the model hold lower-case letters only.
RECURSIVE StrLess(_, _)
StrLess(a, b) ==
  IF Len(b) = 0 THEN FALSE
  ELSE IF Len(a) = 0 THEN TRUE
  ELSE IF a[1] = b[1] THEN StrLess(Tail(a), Tail(b))
  ELSE IndexOf(LowerLetters, a[1]) < IndexOf(LowerLetters, b[1])

RECURSIVE sort(_)

\* a sequence of keys handed back in its own order, not sorted
sort_keeps_order(keys) == keys

\* slice::sort on a Vec<&String> of distinct keys
sort(keys) ==
  IF Len(keys) = 0 THEN <<>>
  ELSE LET m == CHOOSE i \in 1..Len(keys) :
                  \A j \in 1..Len(keys) : j # i => StrLess(keys[i], keys[j])
       IN <<keys[m]>> \o sort(SelectIdx(keys, (1..Len(keys)) \ {m}, 1))

\* strip_ansi_escapes::strip: the vte state machine keeps printable bytes of
\* the ground state and drops ESC, the byte after ESC, and a CSI sequence
\* ESC "[" parameters final-byte.
RECURSIVE StripFrom(_, _, _)
StripFrom(s, i, mode) ==
  IF i > Len(s) THEN <<>>
  ELSE LET c == s[i]
       IN IF c = ESC THEN StripFrom(s, i + 1, "escape")
          ELSE IF mode = "ground" THEN <<c>> \o StripFrom(s, i + 1, "ground")
          ELSE IF mode = "escape"
               THEN (IF c = "[" THEN StripFrom(s, i + 1, "csi")
                     ELSE StripFrom(s, i + 1, "ground"))
          ELSE IF c \in {"0","1","2","3","4","5","6","7","8","9",";"," "}
               THEN StripFrom(s, i + 1, "csi")
               ELSE StripFrom(s, i + 1, "ground")

Strip(s) == StripFrom(s, 1, "ground")

\* a width computation that counts the escape bytes too
compute_string_size_raw(str) == Len(str)

\* Describer::compute_string_size
compute_string_size(str) == Len(Strip(str))

\* a split at the last dot of the path
get_keys_last_dot(field_name) ==
  LET i == LastIndexOf(field_name, ".")
  IN IF i = 0 THEN <<field_name, <<>>>>
     ELSE <<SubSeq(field_name, 1, i - 1), SubSeq(field_name, i + 1, Len(field_name))>>

\* descriptor::get_keys: split once at the first dot
get_keys(field_name) ==
  LET i == IndexOf(field_name, ".")
  IN IF i = 0 THEN <<field_name, <<>>>>
     ELSE <<SubSeq(field_name, 1, i - 1), SubSeq(field_name, i + 1, Len(field_name))>>

(***************************************************************************)
(* Literal texts of the program.                                           *)
(***************************************************************************)
\* "field not found", descriptor_derive to_field fallback
FieldNotFound == <<"f","i","e","l","d"," ","n","o","t"," ","f","o","u","n","d">>

\* "~", the tombstone of an absent value
Tombstone == <<"~">>

\* "todo", HashMap::to_field
Todo == <<"t","o","d","o">>

\* "Empty list"
EmptyList == <<"E","m","p","t","y"," ","l","i","s","t">>

(***************************************************************************)
(* Field names of the struct declarations explored.                        *)
(***************************************************************************)
n_state == <<"s","t","a","t","e">>

n_value == <<"v","a","l","u","e">>

n_table == <<"t","a","b","l","e">>

n_long_column == <<"l","o","n","g","_","c","o","l","u","m","n">>

n_small_one == <<"s","m","a","l","l","_","o","n","e">>

n_hidden_one == <<"h","i","d","d","e","n","_","o","n","e">>

n_string == <<"s","t","r","i","n","g">>

n_inner_foo == <<"i","n","n","e","r","_","f","o","o">>

n_parent == <<"p","a","r","e","n","t">>

n_hide == <<"h","i","d","e">>

n_list == <<"l","i","s","t">>

n_string_list == <<"s","t","r","i","n","g","_","l","i","s","t">>

n_n == <<"n">>

n_time == <<"t","i","m","e">>

n_optional == <<"o","p","t","i","o","n","a","l">>

n_test == <<"t","e","s","t">>

n_foo == <<"f","o","o">>

n_bar == <<"b","a","r">>

n_lorem == <<"l","o","r","e","m">>

n_first_field == <<"f","i","r","s","t","_","f","i","e","l","d">>

n_number == <<"n","u","m","b","e","r">>

n_anything == <<"a","n","y","t","h","i","n","g">>

n_name == <<"n","a","m","e">>

n_inner == <<"i","n","n","e","r">>

n_brand == <<"b","r","a","n","d">>

n_loooooooong == <<"l","o","o","o","o","o","o","o","o","n","g">>

n_twoooo == <<"t","w","o","o","o","o">>

n_child == <<"c","h","i","l","d">>

n_one == <<"o","n","e">>

n_two == <<"t","w","o">>

n_id == <<"i","d">>

n_flattened_child ==
  <<"f","l","a","t","t","e","n","e","d","_","c","h","i","l","d">>

n_c == <<"c">>

n_map == <<"m","a","p">>

n_history == <<"h","i","s","t","o","r","y">>

n_recv == <<"r","e","c","v">>

\* stringify!(ExtraFieldsStruct), the header the generated header_name
\* matches for the extra_fields struct
n_ExtraFieldsStruct == <<"E","x","t","r","a","F","i","e","l","d","s","S","t","r","u","c","t">>

(***************************************************************************)
(* Type expressions and the struct declarations handed to the derive       *)
(* macro.  A field carries the attributes of DescriptorFieldAttr, a struct *)
(* those of DescriptorStructAttr.  An Option<String> attribute is <<>> for *)
(* None and <<text>> for Some(text); an absent type is NoType; an absent   *)
(* function is "".                                                         *)
(***************************************************************************)
Named(n) == [k |-> "named", n |-> n]

OptionOf(t) == [k |-> "Option", of |-> t]

VecOf(t) == [k |-> "Vec", of |-> t]

\* HashMap<String, t>
MapOf(t) == [k |-> "Map", of |-> t]

NoType == [k |-> "none"]

\* StructField with the default DescriptorFieldAttr
Field(name, typ) ==
  [field_name |-> name, typ |-> typ, ix |-> 0,
   skip_header |-> FALSE, skip_description |-> FALSE, skip |-> FALSE,
   output_table |-> FALSE, resolve_option |-> FALSE, flatten |-> FALSE,
   into |-> NoType, map |-> "", rename_header |-> <<>>]

\* a struct declaration with the default DescriptorStructAttr
Struct(decl) ==
  [kind |-> "struct", decl |-> decl,
   into |-> NoType, headers |-> <<>>, map |-> "", extra_fields |-> NoType]

Scalar == [kind |-> "scalar"]

\* a value of a built-in container type handed to a render as it is
Builtin(t) ==
  [kind |-> "builtin", of |-> t, decl |-> <<>>,
   into |-> NoType, headers |-> <<>>, map |-> "", extra_fields |-> NoType]

TString == Named("String")

TU64 == Named("u64")

TU32 == Named("u32")

ScalarNames == {"String", "u64", "u32"}

\* the structs a table is rendered for
RenderTypes ==
  {"InnerA", "TableHide", "Table", "Bar", "SkipInner", "Outer", "OuterOpt",
   "VecFoo", "VecString", "Func", "IntoFoo", "ExtFoo", "Car", "Garage", "MapAll"}

\* the structs an object view is rendered for
ObjectTypes ==
  {"InnerA", "Bar", "Outer", "OuterOpt", "VecFoo", "VecString", "Func",
   "IntoFoo", "ExtFoo", "FlatFoo", "FlatInline", "Wide", "WideInline",
   "Narrow", "VecFlat", "MapB", "Hist", "HistBox", "TestFrom",
   "ExtShadow", "Car", "MapAll", "MapBox", "Vec<u32>", "Vec<FooChild>",
   "OptVec", "MapStruct", "ExtShort", "Quiet"}

TypeNames ==
  ScalarNames \cup RenderTypes \cup ObjectTypes
    \cup {"Foo", "FooChild", "FuncBar", "Pair", "AnotherFoo", "ExtraFieldsStruct",
          "GrandKid", "ChildFoo", "FlatFirst", "TestFromReceiver"}

TypeDef ==
  [n \in TypeNames |->
     CASE n \in ScalarNames -> Scalar
       [] n = "Vec<u32>" -> Builtin(VecOf(TU32))
       [] n = "Vec<FooChild>" -> Builtin(VecOf(Named("FooChild")))
       [] n = "InnerA" ->
            Struct(<<Field(n_state, TString), Field(n_value, TU32)>>)
       [] n = "TableHide" ->
            Struct(<<Field(n_table, TU32),
                     [Field(n_hidden_one, TU64) EXCEPT !.skip_header = TRUE]>>)
       [] n = "Table" ->
            [Struct(<<Field(n_table, TU32), Field(n_long_column, TU64),
                      Field(n_small_one, TU64)>>)
               EXCEPT !.headers = << <<n_small_one, n_table>> >>]
       [] n = "Foo" -> Struct(<<Field(n_string, TU32)>>)
       [] n = "Bar" ->
            Struct(<<Field(n_inner_foo, Named("Foo")), Field(n_parent, TU64)>>)
       [] n = "SkipInner" ->
            Struct(<<[Field(n_inner_foo, Named("Foo")) EXCEPT !.skip_header = TRUE],
                     Field(n_parent, TU64)>>)
       [] n = "Outer" ->
            Struct(<<Field(n_hide, Named("TableHide")), Field(n_parent, TU64)>>)
       [] n = "OuterOpt" ->
            Struct(<<Field(n_hide, OptionOf(Named("TableHide"))),
                     Field(n_parent, TU64)>>)
       [] n = "FooChild" -> Struct(<<Field(n_anything, TU64)>>)
       [] n = "VecFoo" -> Struct(<<Field(n_list, VecOf(Named("FooChild")))>>)
       [] n = "VecString" -> Struct(<<Field(n_string_list, VecOf(TU64))>>)
       [] n = "FuncBar" -> Struct(<<Field(n_test, TString)>>)
       [] n = "Func" ->
            Struct(<<[Field(n_time, TU64) EXCEPT !.map = "map_test"],
                     [Field(n_optional, OptionOf(TU32))
                        EXCEPT !.map = "map_test", !.resolve_option = TRUE]>>)
       [] n = "Pair" -> Struct(<<Field(n_foo, TU32), Field(n_bar, TU64)>>)
       [] n = "AnotherFoo" -> Struct(<<Field(n_lorem, TString)>>)
       [] n = "IntoFoo" ->
            Struct(<<[Field(n_foo, Named("Pair"))
                        EXCEPT !.into = Named("AnotherFoo")]>>)
       [] n = "ExtraFieldsStruct" -> Struct(<<Field(n_anything, TString)>>)
       [] n = "ExtFoo" ->
            [Struct(<<Field(n_first_field, TU32), Field(n_number, TU64)>>)
               EXCEPT !.extra_fields = Named("ExtraFieldsStruct")]
       [] n = "ExtShadow" ->
            [Struct(<<Field(n_anything, TU32), Field(n_number, TU64)>>)
               EXCEPT !.extra_fields = Named("ExtraFieldsStruct")]
       [] n = "ExtShort" ->
            [Struct(<<Field(n_id, TU32), Field(n_number, TU64)>>)
               EXCEPT !.extra_fields = Named("ExtraFieldsStruct")]
       [] n = "Quiet" ->
            Struct(<<Field(n_id, TU32),
                     [Field(n_hidden_one, TU64) EXCEPT !.skip_description = TRUE]>>)
       [] n = "Car" ->
            Struct(<<[Field(n_brand, TU32) EXCEPT !.rename_header = << <<"I","d">> >>],
                     [Field(n_name, TU64) EXCEPT !.skip = TRUE]>>)
       [] n = "Garage" ->
            Struct(<<Field(n_inner, Named("Car")), Field(n_n, TU32)>>)
       [] n = "MapAll" ->
            [Struct(<<Field(n_first_field, TU64), Field(n_number, TU32)>>)
               EXCEPT !.map = "map_all"]
       [] n = "MapBox" -> Struct(<<Field(n_inner, Named("MapAll"))>>)
       [] n = "OptVec" -> Struct(<<Field(n_list, OptionOf(VecOf(TU64)))>>)
       [] n = "MapStruct" -> Struct(<<Field(n_map, MapOf(Named("FooChild")))>>)
       [] n = "GrandKid" -> Struct(<<Field(n_one, TU64)>>)
       [] n = "ChildFoo" ->
            Struct(<<Field(n_twoooo, TU64),
                     [Field(n_child, Named("GrandKid")) EXCEPT !.flatten = TRUE]>>)
       [] n = "FlatFoo" ->
            Struct(<<Field(n_loooooooong, TU32),
                     [Field(n_child, Named("ChildFoo")) EXCEPT !.flatten = TRUE]>>)
       [] n = "FlatInline" ->
            Struct(<<Field(n_loooooooong, TU32), Field(n_twoooo, TU64),
                     [Field(n_child, Named("GrandKid")) EXCEPT !.flatten = TRUE]>>)
       [] n = "Wide" ->
            Struct(<<Field(n_id, TU32),
                     [Field(n_flattened_child, Named("ChildFoo"))
                        EXCEPT !.flatten = TRUE]>>)
       [] n = "WideInline" ->
            Struct(<<Field(n_id, TU32), Field(n_twoooo, TU64),
                     [Field(n_child, Named("GrandKid")) EXCEPT !.flatten = TRUE]>>)
       [] n = "Narrow" ->
            Struct(<<Field(n_id, TU32),
                     [Field(n_c, Named("ChildFoo")) EXCEPT !.flatten = TRUE]>>)
       [] n = "FlatFirst" ->
            Struct(<<[Field(n_child, Named("GrandKid")) EXCEPT !.flatten = TRUE],
                     Field(n_two, TU64)>>)
       [] n = "VecFlat" -> Struct(<<Field(n_list, VecOf(Named("FlatFirst")))>>)
       [] n = "MapB" -> Struct(<<Field(n_map, MapOf(TU64))>>)
       [] n = "Hist" ->
            Struct(<<Field(n_n, TU32),
                     [Field(n_history, VecOf(Named("FooChild")))
                        EXCEPT !.output_table = TRUE]>>)
       [] n = "HistBox" -> Struct(<<Field(n_inner, Named("Hist"))>>)
       [] n = "TestFromReceiver" -> Struct(<<Field(n_recv, TString)>>)
       [] n = "TestFrom" ->
            [Struct(<<Field(n_foo, TU32), Field(n_bar, TU64)>>)
               EXCEPT !.into = Named("TestFromReceiver")]]

\* the type expression of the value a render is started for
RootType(n) == IF TypeDef[n].kind = "builtin" THEN TypeDef[n].of ELSE Named(n)

\* extract_field: the named fields in declared order, those marked skip
\* dropped; ix is the place of the field in the struct value
extract_field(def) ==
  SelectIdx([i \in 1..Len(def.decl) |-> [def.decl[i] EXCEPT !.ix = i]],
            {i \in 1..Len(def.decl) : ~def.decl[i].skip}, 1)

(***************************************************************************)
(* Values.  A scalar value is its text; a struct value is the sequence of  *)
(* its field values in declared order; an Option value is <<>> or <<v>>;   *)
(* a Vec value is a sequence; a HashMap value is the sequence of its       *)
(* <<key, value>> entries in the order its iterator yields them, which is  *)
(* any order, the keys all different.                                      *)
(***************************************************************************)
S_short == <<"f">>

S_long == <<"f","o","o","b","a","r">>

\* "ok" in bold: ESC [ 1 m o k ESC [ 0 m
S_ansi == <<"^","[","1","m","o","k","^","[","0","m">>

ScalarValues(n) ==
  CASE n = "String" -> {S_short, S_long, S_ansi}
    [] n = "u64" -> {<<"7">>}
    [] n = "u32" -> {<<"1">>, <<"3","0">>}

SeqsUpTo(S, n) == UNION {[1..k -> S] : k \in 0..n}

\* the keys of the HashMap values explored
MapKeys == {<<"f">>, <<"f","o">>, <<"t","e","s","t">>}

MapValues(S) ==
  {m \in SeqsUpTo(MapKeys \X S, MaxMap) :
     \A i, j \in 1..Len(m) : i # j => m[i][1] # m[j][1]}

RECURSIVE ValuesOf(_)
RECURSIVE StructValues(_, _)
StructValues(decl, i) ==
  IF i > Len(decl) THEN {<<>>}
  ELSE {<<v>> \o rest : v \in ValuesOf(decl[i].typ),
                        rest \in StructValues(decl, i + 1)}

ValuesOf(t) ==
  CASE t.k = "Option" -> {<<>>} \cup {<<v>> : v \in ValuesOf(t.of)}
    [] t.k = "Vec" -> SeqsUpTo(ValuesOf(t.of), MaxVec)
    [] t.k = "Map" -> MapValues(ValuesOf(t.of))
    [] t.k = "named" ->
         IF TypeDef[t.n].kind = "scalar" THEN ScalarValues(t.n)
         ELSE StructValues(TypeDef[t.n].decl, 1)

(***************************************************************************)
(* The user functions named by map and into attributes.                    *)
(***************************************************************************)
\* tests/describe_test.rs map_test: the number wrapped in a struct
map_test(val) == [typ |-> Named("FuncBar"), val |-> <<val \o <<" ", "s">>>>]

\* field-level map = func: the converted value and its type
MapFn(func, val) == CASE func = "map_test" -> map_test(val)

\* Into::<to>::into(val)
IntoFn(to, val) ==
  CASE to.n = "AnotherFoo" -> <<val[1] \o <<"-">> \o val[2]>>
    [] to.n = "ExtraFieldsStruct" -> <<val[1] \o <<"-">> \o val[2]>>
    [] to.n = "TestFromReceiver" -> <<val[1] \o <<"-">> \o val[2]>>

\* tests/table_test.rs map_all
map_all(b, field) == IF b[2] # <<"1">> THEN <<"-">> ELSE field

\* a struct-level map that hands the text back as it is
StructMapFn_identity(func, self, value) == value

\* struct-level map = func
StructMapFn(func, self, value) == CASE func = "map_all" -> map_all(self, value)

(***************************************************************************)
(* The Describe contract: the trait defaults, the built-in adapters and    *)
(* the implementation generated for a struct.                              *)
(***************************************************************************)
RECURSIVE Headers(_)
RECURSIVE DefaultHeaders(_)
RECURSIVE HeaderName(_, _)
RECURSIVE ToField(_, _, _)

\* the type whose default_headers() a field contributes: the into type when
\* the field declares one, the field's own type otherwise
HeaderSource(f) == IF f.into.k # "none" THEN f.into ELSE f.typ

\* headers_for_struct, the loop body for one field
FieldHeaders(f) ==
  LET dh == DefaultHeaders(HeaderSource(f))
      fields == [i \in 1..Len(dh) |-> f.field_name \o <<".">> \o dh[i]]
  IN IF Len(fields) = 0 THEN <<f.field_name>> ELSE fields

\* a header list that puts the extra_fields struct first
StructHeaders_extra_first(def) ==
  LET fs == extract_field(def)
  IN (IF def.extra_fields.k # "none" THEN DefaultHeaders(def.extra_fields)
      ELSE <<>>)
       \o Flatten([i \in 1..Len(fs) |-> FieldHeaders(fs[i])])

\* headers_for_struct
StructHeaders(def) ==
  LET fs == extract_field(def)
  IN Flatten([i \in 1..Len(fs) |-> FieldHeaders(fs[i])])
       \o (IF def.extra_fields.k # "none" THEN DefaultHeaders(def.extra_fields)
           ELSE <<>>)

\* default_headers_for_struct
StructDefaultHeaders(def) ==
  IF Len(def.headers) = 1 THEN def.headers[1]
  ELSE LET fs == extract_field(def)
           SKIP == {fs[i].field_name : i \in {j \in 1..Len(fs) : fs[j].skip_header}}
           hs == StructHeaders(def)
       IN SelectIdx(hs, {i \in 1..Len(hs) : hs[i] \notin SKIP}, 1)

\* Describe::headers
Headers(t) ==
  CASE t.k = "Option" -> Headers(t.of)
    [] t.k = "Vec" -> <<>>
    [] t.k = "Map" -> <<>>
    [] t.k = "named" ->
         IF TypeDef[t.n].kind = "scalar" THEN <<>>
         ELSE StructHeaders(TypeDef[t.n])

\* Describe::default_headers
DefaultHeaders(t) ==
  IF t.k = "named" /\ TypeDef[t.n].kind = "struct"
  THEN StructDefaultHeaders(TypeDef[t.n])
  ELSE Headers(t)

\* rename_headers_for_struct
StructHeaderName(def, header) ==
  LET keys == get_keys(header)
      fs == extract_field(def)
      hit == {i \in 1..Len(fs) : fs[i].field_name = keys[1]}
  IN IF hit # {}
     THEN LET f == fs[CHOOSE i \in hit : \A j \in hit : i <= j]
          IN IF Len(f.rename_header) = 1 THEN <<f.rename_header[1]>>
             ELSE HeaderName(HeaderSource(f), keys[2])
     ELSE IF def.extra_fields.k # "none" /\ keys[1] = n_ExtraFieldsStruct
     THEN HeaderName(def.extra_fields, keys[2])
     ELSE <<>>

\* Describe::header_name: <<>> is None, <<label>> is Some(label)
HeaderName(t, header) ==
  CASE t.k = "Option" -> HeaderName(t.of, header)
    [] t.k = "Vec" -> <<>>
    [] t.k = "Map" -> <<>>
    [] t.k = "named" ->
         IF TypeDef[t.n].kind = "scalar" THEN <<>>
         ELSE StructHeaderName(TypeDef[t.n], header)

\* field_getter: the value a field's method is called on, and its type
field_getter(f, self) ==
  LET conv(x, xt) ==
        IF f.map # "" THEN MapFn(f.map, x)
        ELSE IF f.into.k # "none" THEN [typ |-> f.into, val |-> IntoFn(f.into, x)]
        ELSE [typ |-> xt, val |-> x]
  IN IF f.typ.k = "Option" /\ f.resolve_option
     THEN (IF Len(self[f.ix]) = 1 THEN conv(self[f.ix][1], f.typ.of)
           ELSE [typ |-> f.typ, val |-> self[f.ix]])
     ELSE conv(self[f.ix], f.typ)

\* a lookup whose fallback leaves the cell empty
StructToField_empty_fallback(t, self, field_name) ==
  LET def == TypeDef[t.n]
      keys == get_keys(field_name)
      fs == extract_field(def)
      hit == {i \in 1..Len(fs) : fs[i].field_name = keys[1]}
      value ==
        IF hit # {}
        THEN LET g == field_getter(fs[CHOOSE i \in hit : \A j \in hit : i <= j], self)
             IN ToField(g.typ, g.val, keys[2])
        ELSE IF def.extra_fields.k # "none"
        THEN ToField(def.extra_fields, IntoFn(def.extra_fields, self), field_name)
        ELSE <<>>
  IN IF def.map # "" THEN StructMapFn(def.map, self, value) ELSE value

\* to_field_for_struct
StructToField(t, self, field_name) ==
  LET def == TypeDef[t.n]
      keys == get_keys(field_name)
      fs == extract_field(def)
      hit == {i \in 1..Len(fs) : fs[i].field_name = keys[1]}
      value ==
        IF hit # {}
        THEN LET g == field_getter(fs[CHOOSE i \in hit : \A j \in hit : i <= j], self)
             IN ToField(g.typ, g.val, keys[2])
        ELSE IF def.extra_fields.k # "none"
        THEN ToField(def.extra_fields, IntoFn(def.extra_fields, self), field_name)
        ELSE FieldNotFound
  IN IF def.map # "" THEN StructMapFn(def.map, self, value) ELSE value

\* Describe::to_field
ToField(t, v, field_name) ==
  CASE t.k = "Option" ->
         IF Len(v) = 0 THEN Tombstone ELSE ToField(t.of, v[1], field_name)
    [] t.k = "Vec" ->
         Join([i \in 1..Len(v) |-> ToField(t.of, v[i], field_name)], <<",">>)
    [] t.k = "Map" -> Todo
    [] t.k = "named" ->
         IF TypeDef[t.n].kind = "scalar" THEN v
         ELSE StructToField(t, v, field_name)

(***************************************************************************)
(* Context and its transforms.                                             *)
(***************************************************************************)
\* Context::default()
Context_default ==
  [offset |-> 0, pad |-> 0, upper_pad |-> 0, is_array |-> FALSE, title_size |-> 0]

\* an indent that moves four columns to the right
indent_by_four(self, pad, title_size) ==
  [offset |-> self.offset + 4, pad |-> Max2(pad, self.upper_pad), upper_pad |-> 0,
   title_size |-> title_size, is_array |-> FALSE]

\* Context::indent
indent(self, pad, title_size) ==
  [offset |-> self.offset + 2, pad |-> Max2(pad, self.upper_pad), upper_pad |-> 0,
   title_size |-> title_size, is_array |-> FALSE]

\* Context::array
array(self) ==
  [offset |-> self.offset, pad |-> self.pad, upper_pad |-> 0, title_size |-> 0,
   is_array |-> TRUE]

\* a table Context that stays at the offset of the composite
indent_and_table_flat(self) ==
  [offset |-> self.offset, pad |-> 0, upper_pad |-> 0, title_size |-> 0,
   is_array |-> TRUE]

\* Context::indent_and_table
indent_and_table(self) ==
  [offset |-> self.offset + 2, pad |-> 0, upper_pad |-> 0, title_size |-> 0,
   is_array |-> TRUE]

\* a pad that forgets the width proposed further up
pad_forgets_parent(self, upper_pad) ==
  [offset |-> self.offset, pad |-> 0, upper_pad |-> upper_pad, title_size |-> 0,
   is_array |-> FALSE]

\* Context::pad
pad(self, upper_pad) ==
  [offset |-> self.offset, pad |-> 0,
   upper_pad |-> Max2(self.upper_pad, upper_pad), title_size |-> 0,
   is_array |-> FALSE]

(***************************************************************************)
(* The table renderer, Describer::describe_list_internal, as pure steps.   *)
(***************************************************************************)
\* a row loop that asks for every cell twice
RowCalls_twice(r, hs) ==
  [i \in 1..(2 * Len(hs)) |-> <<r, hs[((i - 1) % Len(hs)) + 1]>>]

\* lines 691-699: the to_field calls made for the item at place r, one per
\* header path in the order of the list
RowCalls(r, hs) == [i \in 1..Len(hs) |-> <<r, hs[i]>>]

\* a header choice that ignores the caller's list
EffectiveHeaders_defaults_only(t, hs) == DefaultHeaders(t)

\* lines 679-686: the caller's list when it is not empty, else the defaults
EffectiveHeaders(t, hs) == IF Len(hs) = 0 THEN DefaultHeaders(t) ELSE hs

\* lines 691-699: the cells of one row
RowOf(t, row, hs) == [i \in 1..Len(hs) |-> ToField(t, row, hs[i])]

\* a label derived from the part of the path after its last dot
header_label_final_segment(t, header) ==
  IF Len(HeaderName(t, header)) = 0
  THEN UpperSnake(SubSeq(header, LastIndexOf(header, ".") + 1, Len(header)))
  ELSE HeaderName(t, header)[1]

\* lines 702-708: the display label of one header path
header_label(t, header) ==
  IF Len(HeaderName(t, header)) = 0 THEN UpperSnake(header)
  ELSE HeaderName(t, header)[1]

\* lines 711-719: the header lengths raised by the cells of each row in turn
RECURSIVE WidthsFrom(_, _, _)
WidthsFrom(widths, rs, r) ==
  IF r > Len(rs) THEN widths
  ELSE WidthsFrom([i \in 1..Len(widths) |->
                     Max2(widths[i], compute_string_size(rs[r][i]))], rs, r + 1)

\* a cell text that pads the last column as well
CellText_pad_last(cell, i, header_len, widths, offset) ==
  (IF i > 1 THEN <<" ">> ELSE <<>>)
    \o Spaces(offset) \o cell
    \o Spaces(widths[i] - compute_string_size(cell))

\* lines 754-769: the text written for one cell of a data row
CellText(cell, i, header_len, widths, offset) ==
  (IF i > 1 THEN <<" ">> ELSE <<>>)
    \o Spaces(offset) \o cell
    \o (IF i # header_len THEN Spaces(widths[i] - compute_string_size(cell))
        ELSE <<>>)

\* lines 728-741: the header cell; its padding uses the byte length of the label
HeaderCellText(cell, i, header_len, widths, offset) ==
  (IF i > 1 THEN <<" ">> ELSE <<>>)
    \o Spaces(offset) \o cell
    \o (IF i # header_len THEN Spaces(widths[i] - Len(cell)) ELSE <<>>)

(***************************************************************************)
(* The object view.  A render is the sequence of its write calls in the    *)
(* order the depth-first traversal makes them.  Each call is recorded with *)
(* the chain of describe calls that leads to it from the root: every step  *)
(* holds the Context transform applied (via, "same" when the Context is    *)
(* handed on as it is), the place of the field, element or entry described *)
(* (ix, 0 for a converted self or the value of an Option), the Context     *)
(* handed over (ctx) and the type described (t).                           *)
(***************************************************************************)
\* the chain of the value handed to describe_object
Root(c, t) == <<[via |-> "root", ix |-> 0, ctx |-> c, t |-> t]>>

Step(chain, via, ix, c, t) ==
  Append(chain, [via |-> via, ix |-> ix, ctx |-> c, t |-> t])

\* the Context a chain ends in
Here(chain) == chain[Len(chain)].ctx

\* describe_list_internal, lines 679-773: the bytes of a whole table
describe_list_internal(t, data, hs, c) ==
  LET hdrs == EffectiveHeaders(t, hs)
      rs == [r \in 1..Len(data) |-> RowOf(t, data[r], hdrs)]
      names == [i \in 1..Len(hdrs) |-> header_label(t, hdrs[i])]
      widths == WidthsFrom([i \in 1..Len(names) |-> Len(names[i])], rs, 1)
      n == Len(names)
  IN Flatten([i \in 1..n |-> HeaderCellText(names[i], i, n, widths, c.offset)])
       \o (IF Len(rs) = 0 THEN EmptyList \o <<"\n">>
           ELSE Flatten([r \in 1..Len(rs) |->
                  <<"\n">> \o Flatten([i \in 1..n |->
                     CellText(rs[r][i], i, n, widths, c.offset)])]))

\* Context::write_title: the bytes written
write_title(self, field, first_field) ==
  <<"\n">>
    \o (IF first_field /\ self.is_array
        THEN Spaces(self.offset - 2) \o <<"-", " ">> \o field \o <<":">>
        ELSE Spaces(self.offset) \o field \o <<":">>)

\* Context::write_value: the bytes written
write_value(self, field) ==
  IF self.is_array
  THEN <<"\n">> \o Spaces(self.offset - 2) \o <<"-", " ">> \o field
  ELSE Spaces(self.pad - self.title_size) \o field

\* the usize subtraction of a write call goes below zero
Underflows(self, call, first_field) ==
  \/ call = "write_title" /\ first_field /\ self.is_array /\ self.offset < 2
  \/ call = "write_value" /\ self.is_array /\ self.offset < 2
  \/ call = "write_value" /\ ~self.is_array /\ self.pad < self.title_size

\* ctx.write_title(writer, field, first_field) at the end of a chain
TitleCall(chain, field, first_field) ==
  [e |-> "write_title", chain |-> chain, ctx |-> Here(chain), field |-> field,
   first_field |-> first_field,
   text |-> write_title(Here(chain), field, first_field),
   ovf |-> Underflows(Here(chain), "write_title", first_field)]

\* ctx.write_value(writer, field) at the end of a chain
ValueCall(chain, field) ==
  [e |-> "write_value", chain |-> chain, ctx |-> Here(chain), field |-> field,
   first_field |-> FALSE,
   text |-> write_value(Here(chain), field),
   ovf |-> Underflows(Here(chain), "write_value", FALSE)]

\* Context::describe_table, lines 463-470: a line break, then the table of
\* data: &[t] under self.indent_and_table()
TableCall(chain, ix, t, data) ==
  LET inner == Step(chain, "indent_and_table", ix,
                    indent_and_table(Here(chain)), VecOf(t))
  IN [e |-> "describe_table", chain |-> inner, ctx |-> Here(inner),
      field |-> <<>>, first_field |-> FALSE,
      text |-> <<"\n">> \o describe_list_internal(t, data, <<>>, Here(inner)),
      ovf |-> FALSE]

\* describe_object line 643: the line break after the description
NewlineCall(chain) ==
  [e |-> "writeln", chain |-> chain, ctx |-> Here(chain), field |-> <<>>,
   first_field |-> FALSE, text |-> <<"\n">>, ovf |-> FALSE]

MaxOf(S) == CHOOSE m \in S : \A x \in S : x <= m

RECURSIVE struct_pad(_)

\* a label column as wide as the shortest name
pad_struct_shortest(def) ==
  LET fs == extract_field(def)
  IN IF Len(fs) = 0 THEN 0
     ELSE -MaxOf({-Len(Title(fs[i].field_name)) : i \in 1..Len(fs)})

\* pad_struct: one more than the longest Title-case name among the fields
\* extract_field returns, raised to the struct_pad() of every flatten field
pad_struct(def) ==
  LET fs == extract_field(def)
      own == IF Len(fs) = 0 THEN 0
             ELSE MaxOf({Len(Title(fs[i].field_name)) : i \in 1..Len(fs)}) + 1
  IN MaxOf({own} \cup {struct_pad(fs[i].typ) :
                         i \in {j \in 1..Len(fs) : fs[j].flatten}})

\* Describe::struct_pad: 0 unless the derive macro generates it
struct_pad(t) ==
  IF t.k = "named" /\ TypeDef[t.n].kind = "struct"
  THEN pad_struct(TypeDef[t.n])
  ELSE 0

RECURSIVE Describe(_, _, _)

\* an Option that describes its value one level further in
describe_option_nested(t, v, chain) ==
  IF Len(v) = 0 THEN <<ValueCall(chain, Tombstone)>>
  ELSE Describe(t.of, v[1],
                Step(chain, "indent", 0, indent(Here(chain), 0, 0), t.of))

\* Option<T>::describe, lines 622-628
describe_option(t, v, chain) ==
  IF Len(v) = 0 THEN <<ValueCall(chain, Tombstone)>>
  ELSE Describe(t.of, v[1], Step(chain, "same", 0, Here(chain), t.of))

\* Vec<T>::describe, lines 595-604
describe_vec(t, v, chain) ==
  IF Len(v) = 0 THEN <<ValueCall(chain, Tombstone)>>
  ELSE Flatten([i \in 1..Len(v) |->
                  Describe(t.of, v[i],
                           Step(chain, "array", i, array(Here(chain)), t.of))])

\* HashMap<String, V>::describe, lines 571-584
describe_map(t, v, chain) ==
  IF Len(v) # 0
  THEN LET width == MaxOf({Len(v[i][1]) : i \in 1..Len(v)}) + 1
           keys == sort([i \in 1..Len(v) |-> v[i][1]])
           at(k) == v[CHOOSE i \in 1..Len(v) : v[i][1] = k][2]
       IN Flatten([i \in 1..Len(keys) |->
            <<TitleCall(chain, keys[i], FALSE)>>
              \o Describe(t.of, at(keys[i]),
                          Step(chain, "indent", i,
                               indent(Here(chain), width, Len(keys[i])),
                               t.of))])
  ELSE <<ValueCall(chain, Tombstone)>>

\* a describe_field that treats a flatten field like any other field
describe_field_flatten_titled(t, self, f, first_field, chain) ==
  LET title_name == Title(f.field_name)
  IN <<TitleCall(chain, title_name, first_field)>>
       \o (IF f.output_table
           THEN <<TableCall(chain, f.ix, f.typ.of, self[f.ix])>>
           ELSE LET g == field_getter(f, self)
                IN Describe(g.typ, g.val,
                            Step(chain, "indent", f.ix,
                                 indent(Here(chain), struct_pad(t),
                                        Len(title_name)),
                                 g.typ)))

\* describe_field: the code generated for one field of the struct t
describe_field(t, self, f, first_field, chain) ==
  LET title_name == Title(f.field_name)
  IN IF f.flatten
     THEN Describe(f.typ, self[f.ix],
                   Step(chain, "pad", f.ix, pad(Here(chain), struct_pad(t)),
                        f.typ))
     ELSE <<TitleCall(chain, title_name, first_field)>>
            \o (IF f.output_table
                THEN <<TableCall(chain, f.ix, f.typ.of, self[f.ix])>>
                ELSE LET g == field_getter(f, self)
                     IN Describe(g.typ, g.val,
                                 Step(chain, "indent", f.ix,
                                      indent(Here(chain), struct_pad(t),
                                             Len(title_name)),
                                      g.typ)))

\* a describe that walks the struct's own fields whatever it declares
describe_struct_own_fields(t, self, chain) ==
  LET def == TypeDef[t.n]
      fs == extract_field(def)
      shown == SelectIdx(fs, {i \in 1..Len(fs) : ~fs[i].skip_description}, 1)
  IN Flatten([i \in 1..Len(shown) |->
                describe_field(t, self, shown[i], i = 1, chain)])
       \o (IF def.extra_fields.k # "none"
           THEN Describe(def.extra_fields, IntoFn(def.extra_fields, self),
                         Step(chain, "pad", 0,
                              pad(Here(chain), struct_pad(t)),
                              def.extra_fields))
           ELSE <<>>)

\* describe_method_for_struct
describe_struct(t, self, chain) ==
  LET def == TypeDef[t.n]
      fs == extract_field(def)
      shown == SelectIdx(fs, {i \in 1..Len(fs) : ~fs[i].skip_description}, 1)
  IN IF def.into.k # "none"
     THEN Describe(def.into, IntoFn(def.into, self),
                   Step(chain, "clone", 0, Here(chain), def.into))
     ELSE Flatten([i \in 1..Len(shown) |->
                     describe_field(t, self, shown[i], i = 1, chain)])
            \o (IF def.extra_fields.k # "none"
                THEN Describe(def.extra_fields, IntoFn(def.extra_fields, self),
                              Step(chain, "pad", 0,
                                   pad(Here(chain), struct_pad(t)),
                                   def.extra_fields))
                ELSE <<>>)

\* Describe::describe: the write calls of one value, in order.  The trait
\* default (lines 552-557) writes to_field("") as a value.
Describe(t, v, chain) ==
  CASE t.k = "Option" -> describe_option(t, v, chain)
    [] t.k = "Vec" -> describe_vec(t, v, chain)
    [] t.k = "Map" -> describe_map(t, v, chain)
    [] t.k = "named" ->
         IF TypeDef[t.n].kind = "scalar"
         THEN <<ValueCall(chain, ToField(t, v, <<>>))>>
         ELSE describe_struct(t, v, chain)

\* Describer::describe_object, lines 634-644
describe_object(t, data, c) ==
  Describe(t, data, Root(c, t)) \o <<NewlineCall(Root(c, t))>>

\* the bytes of a sequence of write calls
TextOf(calls) == Flatten([i \in 1..Len(calls) |-> calls[i].text])

(***************************************************************************)
(* Inputs of a run.                                                        *)
(***************************************************************************)
\* a path that names no field of any struct
Bogus == <<"z","z">>

\* paths a caller can ask for beyond headers(): fields left out of the
\* defaults of a nested struct, and the bare name of a nested struct
HiddenPaths(n) ==
  CASE n = "Outer" -> {n_hide \o <<".">> \o n_hidden_one}
    [] n = "SkipInner" -> {n_inner_foo}
    [] n = "TestFrom" -> {n_recv}
    [] OTHER -> {}

InputPaths(n) ==
  {Headers(RootType(n))[i] : i \in 1..Len(Headers(RootType(n)))}
    \cup HiddenPaths(n) \cup {Bogus}

\* paths that go on below a scalar field, and the name of a field marked skip
DeepPaths(n) ==
  CASE n = "Bar" -> {n_inner_foo \o <<".">> \o n_string \o <<".">> \o Bogus,
                     n_parent \o <<".">> \o Bogus}
    [] n = "Outer" -> {n_hide \o <<".">> \o n_table \o <<".">> \o Bogus}
    [] n = "Car" -> {n_name}
    [] n = "MapAll" -> {n_number \o <<".">> \o Bogus}
    [] n = "MapBox" -> {n_inner \o <<".">> \o Bogus,
                        n_inner \o <<".">> \o n_number \o <<".">> \o Bogus}
    [] OTHER -> {}

\* header lists without repetition, the empty list included
OverrideSet(n) ==
  {hs \in SeqsUpTo(InputPaths(n), MaxOverride) :
     \A i, j \in 1..Len(hs) : i # j => hs[i] # hs[j]}

\* the Context of the composite that holds an embedded table field
ParentContexts == {Context_default, indent(Context_default, 0, 0)}

(***************************************************************************)
(* State.                                                                  *)
(***************************************************************************)
VARIABLES
  typ,           \* name of the item type T
  items,         \* data: &[T]
  pc,            \* position in the running operation
  entry,         \* "none", "top" (table_describe), "embedded" (describe_table)
  ctx,           \* the Context of describe_list_internal
  arg,           \* the headers argument
  headers,       \* the effective header list
  rows,          \* the rows computed so far
  header_names,  \* the display labels
  col_widths,    \* the column widths
  rix,           \* the row being printed
  idx,           \* the next cell of the line being printed
  out,           \* the bytes written to the sink
  ret,           \* the result of a contract call
  obj,           \* the place in items of the value of an object render
  evs,           \* the write calls of the object render, in order
  pos,           \* the next write call of the object render
  failed,        \* the sink has returned an error
  invoked        \* the to_field calls of the table render: <<item, path>>

vars == <<typ, items, pc, entry, ctx, arg, headers, rows, header_names,
          col_widths, rix, idx, out, ret, obj, evs, pos, failed, invoked>>

\* the state of an object render and of the sink
object_vars == <<obj, evs, pos, failed>>

T == RootType(typ)

NoRet == [op |-> "none"]

Init ==
  /\ typ \in RenderTypes
  /\ items \in SeqsUpTo(ValuesOf(Named(typ)), MaxItems)
  /\ pc = "idle"
  /\ entry = "none"
  /\ ctx = Context_default
  /\ arg = <<>>
  /\ headers = <<>>
  /\ rows = <<>>
  /\ header_names = <<>>
  /\ col_widths = <<>>
  /\ rix = 0
  /\ idx = 0
  /\ out = <<>>
  /\ ret = NoRet
  /\ obj = 0
  /\ evs = <<>>
  /\ pos = 0
  /\ failed = FALSE
  /\ invoked = <<>>

\* table_describe / table_describe_with_header_to_string: a top-level table
\* render with Context::default(); describe_list passes the empty list
TableDescribe(hs) ==
  /\ pc = "idle"
  /\ entry' = "top"
  /\ ctx' = Context_default
  /\ arg' = hs
  /\ headers' = EffectiveHeaders(T, hs)
  /\ pc' = "rows"
  /\ UNCHANGED <<typ, items, rows, header_names, col_widths, rix, idx, out, ret>>
  /\ UNCHANGED object_vars
  /\ UNCHANGED invoked

\* Context::describe_table: the table of an output_table field
DescribeTable(self) ==
  /\ pc = "idle"
  /\ entry' = "embedded"
  /\ out' = out \o <<"\n">>
  /\ ctx' = indent_and_table(self)
  /\ arg' = <<>>
  /\ headers' = EffectiveHeaders(T, <<>>)
  /\ pc' = "rows"
  /\ UNCHANGED <<typ, items, rows, header_names, col_widths, rix, idx, ret>>
  /\ UNCHANGED object_vars
  /\ UNCHANGED invoked

\* lines 688-700: the row of the next item
ComputeRow ==
  /\ pc = "rows"
  /\ Len(rows) < Len(items)
  /\ rows' = Append(rows, RowOf(T, items[Len(rows) + 1], headers))
  /\ invoked' = invoked \o RowCalls(Len(rows) + 1, headers)
  /\ UNCHANGED <<typ, items, pc, entry, ctx, arg, headers, header_names,
                 col_widths, rix, idx, out, ret>>
  /\ UNCHANGED object_vars

\* lines 702-708
ComputeHeaderNames ==
  /\ pc = "rows"
  /\ Len(rows) = Len(items)
  /\ header_names' = [i \in 1..Len(headers) |-> header_label(T, headers[i])]
  /\ pc' = "widths"
  /\ UNCHANGED <<typ, items, entry, ctx, arg, headers, rows, col_widths, rix,
                 idx, out, ret>>
  /\ UNCHANGED object_vars
  /\ UNCHANGED invoked

\* lines 710-721
ComputeWidths ==
  /\ pc = "widths"
  /\ col_widths' =
       WidthsFrom([i \in 1..Len(header_names) |-> Len(header_names[i])], rows, 1)
  /\ idx' = 1
  /\ rix' = 0
  /\ pc' = "print"
  /\ UNCHANGED <<typ, items, entry, ctx, arg, headers, rows, header_names,
                 out, ret>>
  /\ UNCHANGED object_vars
  /\ UNCHANGED invoked

\* lines 723-742: one cell of the header row
PrintHeaderCell ==
  /\ pc = "print"
  /\ rix = 0
  /\ idx <= Len(header_names)
  /\ out' = out \o HeaderCellText(header_names[idx], idx, Len(header_names),
                                  col_widths, ctx.offset)
  /\ idx' = idx + 1
  /\ UNCHANGED <<typ, items, pc, entry, ctx, arg, headers, rows, header_names,
                 col_widths, rix, ret>>
  /\ UNCHANGED object_vars
  /\ UNCHANGED invoked

\* lines 745-747
PrintEmpty ==
  /\ pc = "print"
  /\ rix = 0
  /\ idx > Len(header_names)
  /\ Len(rows) = 0
  /\ out' = out \o EmptyList \o <<"\n">>
  /\ pc' = "return"
  /\ UNCHANGED <<typ, items, entry, ctx, arg, headers, rows, header_names,
                 col_widths, rix, idx, ret>>
  /\ UNCHANGED object_vars
  /\ UNCHANGED invoked

\* lines 748-749: the line break that opens the next row
StartRow ==
  /\ pc = "print"
  /\ idx > Len(header_names)
  /\ rix < Len(rows)
  /\ out' = out \o <<"\n">>
  /\ rix' = rix + 1
  /\ idx' = 1
  /\ UNCHANGED <<typ, items, pc, entry, ctx, arg, headers, rows, header_names,
                 col_widths, ret>>
  /\ UNCHANGED object_vars
  /\ UNCHANGED invoked

\* lines 750-770: one cell of a data row
PrintRowCell ==
  /\ pc = "print"
  /\ rix > 0
  /\ idx <= Len(rows[rix])
  /\ out' = out \o CellText(rows[rix][idx], idx, Len(header_names), col_widths,
                            ctx.offset)
  /\ idx' = idx + 1
  /\ UNCHANGED <<typ, items, pc, entry, ctx, arg, headers, rows, header_names,
                 col_widths, rix, ret>>
  /\ UNCHANGED object_vars
  /\ UNCHANGED invoked

\* line 773: the rows are exhausted
EndRows ==
  /\ pc = "print"
  /\ idx > Len(header_names)
  /\ rix = Len(rows)
  /\ Len(rows) > 0
  /\ pc' = "return"
  /\ UNCHANGED <<typ, items, entry, ctx, arg, headers, rows, header_names,
                 col_widths, rix, idx, out, ret>>
  /\ UNCHANGED object_vars
  /\ UNCHANGED invoked

\* describe_list_with_header lines 666-667: the newline after the table
ReturnTop ==
  /\ pc = "return"
  /\ entry = "top"
  /\ out' = out \o <<"\n">>
  /\ pc' = "done"
  /\ UNCHANGED <<typ, items, entry, ctx, arg, headers, rows, header_names,
                 col_widths, rix, idx, ret>>
  /\ UNCHANGED object_vars
  /\ UNCHANGED invoked

\* describe_table line 469: nothing is written after the embedded table
ReturnEmbedded ==
  /\ pc = "return"
  /\ entry = "embedded"
  /\ pc' = "done"
  /\ UNCHANGED <<typ, items, entry, ctx, arg, headers, rows, header_names,
                 col_widths, rix, idx, out, ret>>
  /\ UNCHANGED object_vars
  /\ UNCHANGED invoked

\* T::headers()
CallHeaders ==
  /\ pc = "idle"
  /\ ret' = [op |-> "headers", val |-> Headers(T)]
  /\ pc' = "returned"
  /\ UNCHANGED <<typ, items, entry, ctx, arg, headers, rows, header_names,
                 col_widths, rix, idx, out>>
  /\ UNCHANGED object_vars
  /\ UNCHANGED invoked

\* T::default_headers()
CallDefaultHeaders ==
  /\ pc = "idle"
  /\ ret' = [op |-> "default_headers", val |-> DefaultHeaders(T)]
  /\ pc' = "returned"
  /\ UNCHANGED <<typ, items, entry, ctx, arg, headers, rows, header_names,
                 col_widths, rix, idx, out>>
  /\ UNCHANGED object_vars
  /\ UNCHANGED invoked

\* items[i].to_field(path)
CallToField(i, path) ==
  /\ pc = "idle"
  /\ ret' = [op |-> "to_field", item |-> i, path |-> path,
             val |-> ToField(T, items[i], path)]
  /\ pc' = "returned"
  /\ UNCHANGED <<typ, items, entry, ctx, arg, headers, rows, header_names,
                 col_widths, rix, idx, out>>
  /\ UNCHANGED object_vars
  /\ UNCHANGED invoked

Next ==
  \/ \E hs \in OverrideSet(typ) : TableDescribe(hs)
  \/ \E self \in ParentContexts : DescribeTable(self)
  \/ ComputeRow
  \/ ComputeHeaderNames
  \/ ComputeWidths
  \/ PrintHeaderCell
  \/ PrintEmpty
  \/ StartRow
  \/ PrintRowCell
  \/ EndRows
  \/ ReturnTop
  \/ ReturnEmbedded
  \/ CallHeaders
  \/ CallDefaultHeaders
  \/ \E i \in 1..Len(items) : \E path \in InputPaths(typ) : CallToField(i, path)

Spec == Init /\ [][Next]_vars

(***************************************************************************)
(* Object renders and a sink that can fail.  A write call that fails has   *)
(* handed the sink a proper part of its bytes, possibly none; the `?`      *)
(* after the call returns the error.                                       *)
(***************************************************************************)
\* a render that drops the error of a write and goes on
try_ignored(resume) == resume

\* the `?` operator on an Err: the function returns, the caller's `?` too
try(resume) == "error"

\* the bytes the next step of the table render writes
PendingWrite ==
  CASE pc = "print" /\ rix = 0 /\ idx <= Len(header_names) ->
         HeaderCellText(header_names[idx], idx, Len(header_names), col_widths,
                        ctx.offset)
    [] pc = "print" /\ rix = 0 /\ idx > Len(header_names) /\ Len(rows) = 0 ->
         EmptyList \o <<"\n">>
    [] pc = "print" /\ idx > Len(header_names) /\ rix < Len(rows) -> <<"\n">>
    [] pc = "print" /\ rix > 0 /\ idx <= Len(rows[rix]) ->
         CellText(rows[rix][idx], idx, Len(header_names), col_widths, ctx.offset)
    [] pc = "return" /\ entry = "top" -> <<"\n">>
    [] OTHER -> <<>>

\* object_describe / object_describe_to_string(&items[i]): lines 783-788,
\* describe_object with Context::default()
ObjectDescribe(i) ==
  /\ pc = "idle"
  /\ entry' = "object"
  /\ obj' = i
  /\ ctx' = Context_default
  /\ evs' = describe_object(T, items[i], Context_default)
  /\ pos' = 1
  /\ pc' = "describe"
  /\ UNCHANGED <<typ, items, arg, headers, rows, header_names, col_widths,
                 rix, idx, out, ret, failed,
                 invoked>>

\* the next write call of the object render succeeds
WriteCall ==
  /\ pc = "describe"
  /\ pos <= Len(evs)
  /\ ~evs[pos].ovf
  /\ out' = out \o evs[pos].text
  /\ ctx' = evs[pos].ctx
  /\ pos' = pos + 1
  /\ UNCHANGED <<typ, items, pc, entry, arg, headers, rows, header_names,
                 col_widths, rix, idx, ret, obj, evs, failed,
                 invoked>>

\* the next write call of the object render fails after k bytes
WriteCallFails(k) ==
  /\ pc = "describe"
  /\ pos <= Len(evs)
  /\ ~evs[pos].ovf
  /\ k < Len(evs[pos].text)
  /\ out' = out \o SubSeq(evs[pos].text, 1, k)
  /\ ctx' = evs[pos].ctx
  /\ failed' = TRUE
  /\ pc' = try("describe")
  /\ UNCHANGED <<typ, items, entry, arg, headers, rows, header_names,
                 col_widths, rix, idx, ret, obj, evs, pos,
                 invoked>>

\* what the build makes of a usize subtraction below zero
OverflowOutcomes == {"panic", "flood"}

\* the next write call of the object render subtracts below zero: after the
\* line break of a bullet line the width offset - 2 or, before anything is
\* written, the width pad - title_size.  A build with overflow checks
\* panics there; a build without them wraps the width to a number near
\* usize::MAX and the padding of that width does not come to an end.
WriteCallOverflows(outcome) ==
  /\ pc = "describe"
  /\ pos <= Len(evs)
  /\ evs[pos].ovf
  /\ out' = out \o (IF evs[pos].ctx.is_array THEN <<"\n">> ELSE <<>>)
  /\ ctx' = evs[pos].ctx
  /\ pc' = outcome
  /\ UNCHANGED <<typ, items, entry, arg, headers, rows, header_names,
                 col_widths, rix, idx, ret, obj, evs, pos, failed, invoked>>

\* describe_object line 643 has returned Ok(())
ObjectReturn ==
  /\ pc = "describe"
  /\ pos > Len(evs)
  /\ pc' = "done"
  /\ UNCHANGED <<typ, items, entry, ctx, arg, headers, rows, header_names,
                 col_widths, rix, idx, out, ret, obj, evs, pos, failed,
                 invoked>>

\* the next write of the table render fails after k bytes
TableWriteFails(k) ==
  /\ pc \in {"print", "return"}
  /\ k < Len(PendingWrite)
  /\ out' = out \o SubSeq(PendingWrite, 1, k)
  /\ failed' = TRUE
  /\ pc' = try(pc)
  /\ UNCHANGED <<typ, items, entry, ctx, arg, headers, rows, header_names,
                 col_widths, rix, idx, ret, obj, evs, pos,
                 invoked>>

\* a contract call has returned to the caller, who goes on with its result
CallReturns ==
  /\ pc = "returned"
  /\ pc' = "idle"
  /\ UNCHANGED <<typ, items, entry, ctx, arg, headers, rows, header_names,
                 col_widths, rix, idx, out, ret, obj, evs, pos, failed,
                 invoked>>

\* the bytes the next write call of the object render writes
PendingCall ==
  IF pc = "describe" /\ pos <= Len(evs) THEN evs[pos].text ELSE <<>>

\* how much of a text a failing write can have handed over
FailPoints(text) == 0..(Len(text) - 1)

InitSink ==
  /\ typ \in ObjectTypes
  /\ items \in SeqsUpTo(ValuesOf(RootType(typ)), MaxObjects)
  /\ pc = "idle"
  /\ entry = "none"
  /\ ctx = Context_default
  /\ arg = <<>>
  /\ headers = <<>>
  /\ rows = <<>>
  /\ header_names = <<>>
  /\ col_widths = <<>>
  /\ rix = 0
  /\ idx = 0
  /\ out = <<>>
  /\ ret = NoRet
  /\ obj = 0
  /\ evs = <<>>
  /\ pos = 0
  /\ failed = FALSE
  /\ invoked = <<>>

NextSink ==
  \/ \E i \in 1..Len(items) : ObjectDescribe(i)
  \/ WriteCall
  \/ \E k \in FailPoints(PendingCall) : WriteCallFails(k)
  \/ \E outcome \in OverflowOutcomes : WriteCallOverflows(outcome)
  \/ ObjectReturn
  \/ TableDescribe(<<>>)
  \/ ComputeRow
  \/ ComputeHeaderNames
  \/ ComputeWidths
  \/ PrintHeaderCell
  \/ PrintEmpty
  \/ StartRow
  \/ PrintRowCell
  \/ EndRows
  \/ ReturnTop
  \/ \E k \in FailPoints(PendingWrite) : TableWriteFails(k)
  \/ \E i \in 1..Len(items) :
        \E path \in InputPaths(typ) \cup DeepPaths(typ) : CallToField(i, path)
  \/ CallReturns

SpecSink == InitSink /\ [][NextSink]_vars

(***************************************************************************)
(* Vocabulary of the properties.                                           *)
(***************************************************************************)
\* the lines of a text: the pieces between line breaks
Lines(s) == SplitOn(s, "\n")

LastLine(s) == Lines(s)[Len(Lines(s))]

\* the positions of s that belong to an escape sequence ESC "[" ... final
EscapePositions(s) ==
  {p \in 1..Len(s) :
     \E b \in 1..p :
        /\ s[b] = ESC
        /\ b < Len(s) /\ s[b + 1] = "["
        /\ \A q \in (b + 2)..(p - 1) :
              s[q] \in {"0","1","2","3","4","5","6","7","8","9",";"}}

\* the number of characters of s a terminal shows
VisibleLength(s) == Len(s) - Cardinality(EscapePositions(s))

RECURSIVE SumTo(_, _)
SumTo(w, n) == IF n = 0 THEN 0 ELSE w[n] + SumTo(w, n - 1)

\* line shows the cells in columns: column i starts lead + (i-1)*gap
\* characters after the widths of the columns before it, every character
\* outside the cells is a space and the line ends with the last cell
LineHasColumns(line, cells, widths, lead, gap) ==
  LET n == Len(cells)
      start(i) == lead + SumTo(widths, i - 1) + (i - 1) * gap
  IN /\ n = 0 => Len(line) = 0
     /\ n > 0 => Len(line) = start(n) + Len(cells[n])
     /\ \A i \in 1..n :
          /\ start(i) + Len(cells[i]) <= Len(line)
          /\ SubSeq(line, start(i) + 1, start(i) + Len(cells[i])) = cells[i]
     /\ \A q \in 1..Len(line) :
          (\A i \in 1..n : ~(start(i) < q /\ q <= start(i) + Len(cells[i])))
            => line[q] = " "

\* the widths are computed
WidthsKnown == pc \in {"print", "return", "done"}

\* the header row (rix = 0) or the data row rix has just been written in full
LineWritten == pc = "print" /\ idx > Len(header_names)

\* the cells of the line being written, as a terminal shows them
ShownCells ==
  IF rix = 0 THEN header_names
  ELSE [i \in 1..Len(rows[rix]) |-> Strip(rows[rix][i])]

\* the fields of the item type that are marked skip_header
SkipHeaderFields ==
  {extract_field(TypeDef[typ])[i].field_name :
     i \in {j \in 1..Len(extract_field(TypeDef[typ])) :
              extract_field(TypeDef[typ])[j].skip_header}}

(***************************************************************************)
(* C1: once the widths of a table render are computed, every column's      *)
(* width is exactly the maximum of the length of its display label and of  *)
(* the visible lengths (escape sequences discarded) of its cells: it is at *)
(* least each of them and equal to one of them.                            *)
(***************************************************************************)
C1_ColumnWidthIsMax ==
  WidthsKnown =>
    /\ Len(col_widths) = Len(header_names)
    /\ \A i \in 1..Len(col_widths) :
         /\ col_widths[i] >= Len(header_names[i])
         /\ \A r \in 1..Len(rows) : col_widths[i] >= VisibleLength(rows[r][i])
         /\ \/ col_widths[i] = Len(header_names[i])
            \/ \E r \in 1..Len(rows) : col_widths[i] = VisibleLength(rows[r][i])

\* a finished render where a cell sets the width of one column and a cell
\* with escape bytes has more bytes than the width of its column
C1_Witness ==
  /\ pc = "done"
  /\ \E i \in 1..Len(col_widths) : col_widths[i] > Len(header_names[i])
  /\ \E r \in 1..Len(rows) : \E i \in 1..Len(col_widths) :
       Len(rows[r][i]) > col_widths[i]

(***************************************************************************)
(* C2 as stated: in every table render, top-level or embedded, each line   *)
(* pads every non-last column to its width, separates consecutive columns  *)
(* by exactly one space and ends with the text of the last column.         *)
(***************************************************************************)
C2_OneSpaceBetweenColumns ==
  LineWritten =>
    LineHasColumns(Strip(LastLine(out)), ShownCells, col_widths, ctx.offset, 1)

(***************************************************************************)
(* C2 amended: each line pads every non-last column to its width and ends  *)
(* with the text of the last column; every column's text is preceded by    *)
(* the Context's offset in spaces, so consecutive columns are separated by *)
(* exactly one space in a top-level render (offset 0) and by 1 + offset    *)
(* spaces in an embedded table.                                            *)
(***************************************************************************)
C2_ColumnsPaddedOffsetPerColumn ==
  LineWritten =>
    LineHasColumns(Strip(LastLine(out)), ShownCells, col_widths, ctx.offset,
                   1 + ctx.offset)

\* an embedded table has written a data row of two columns whose first cell
\* is shorter than its column
C2_Witness ==
  /\ LineWritten
  /\ entry = "embedded"
  /\ rix > 0
  /\ Len(header_names) >= 2
  /\ Len(ShownCells[1]) < col_widths[1]

(***************************************************************************)
(* C3 as stated: a table render over zero items emits the header row as    *)
(* one line, followed by a line whose whole content is "Empty list".       *)
(***************************************************************************)
C3_EmptyListOnOwnLine ==
  (pc = "done" /\ Len(items) = 0) =>
    \E k \in 2..Len(Lines(out)) :
       /\ Lines(out)[k] = EmptyList
       /\ LineHasColumns(Lines(out)[k - 1], header_names, col_widths,
                         ctx.offset, 1 + ctx.offset)

(***************************************************************************)
(* C4 as stated: for every item list, the empty one included, the output   *)
(* of a top-level table render has no empty line, consists of the header   *)
(* line and one line per item, and ends with exactly one newline.          *)
(***************************************************************************)
C4_OneBlockOneNewline ==
  (pc = "done" /\ entry = "top") =>
    /\ Len(out) >= 2
    /\ out[Len(out)] = "\n"
    /\ out[Len(out) - 1] # "\n"
    /\ Len(Lines(out)) = 1 + Len(items) + 1
    /\ \A k \in 1..(Len(Lines(out)) - 1) : Len(Lines(out)[k]) > 0

(***************************************************************************)
(* C5: a table render has exactly one column per path of the effective     *)
(* header list, in the order of that list: the caller's list when it is    *)
(* not empty, otherwise default_headers(), which is the list the type      *)
(* declares when it declares one.                                          *)
(***************************************************************************)
C5_Effective ==
  IF Len(arg) > 0 THEN arg
  ELSE IF Len(TypeDef[typ].headers) = 1 THEN TypeDef[typ].headers[1]
  ELSE DefaultHeaders(T)

C5_OneColumnPerHeader ==
  WidthsKnown =>
    LET effective == C5_Effective
        labels    == [i \in 1..Len(effective) |-> header_label(T, effective[i])]
    IN /\ Len(header_names) = Len(effective)
       /\ Len(col_widths) = Len(effective)
       /\ header_names = labels
       /\ Len(rows) = Len(items)
       /\ \A r \in 1..Len(rows) :
            /\ Len(rows[r]) = Len(effective)
            /\ \A i \in 1..Len(effective) :
                 rows[r][i] = ToField(T, items[r], effective[i])
       /\ (rix = 0 /\ LineWritten) =>
            LineHasColumns(LastLine(out), labels,
                           col_widths, ctx.offset, 1 + ctx.offset)

\* a finished render of at least one item with a caller's list of two paths
\* that is not the default list
C5_Witness ==
  /\ pc = "done"
  /\ Len(arg) = 2
  /\ arg # DefaultHeaders(T)
  /\ Len(items) >= 1

(***************************************************************************)
(* C6 as stated: a table rendered with default headers has no column for   *)
(* a field excluded from the default headers, leaf or composite, and a     *)
(* table rendered with an explicit list naming a path of that field shows  *)
(* the field's values.                                                     *)
(***************************************************************************)
C6_SkipHeaderHidesField ==
  pc = "done" =>
    /\ Len(arg) = 0 =>
         \A i \in 1..Len(headers) : get_keys(headers[i])[1] \notin SkipHeaderFields
    /\ \A i \in 1..Len(arg) :
         (/\ get_keys(arg[i])[1] \in SkipHeaderFields
          /\ \E k \in 1..Len(Headers(T)) : Headers(T)[k] = arg[i])
           => \A r \in 1..Len(rows) :
                 rows[r][i] = ToField(T, items[r], arg[i]) /\ rows[r][i] # FieldNotFound

(***************************************************************************)
(* C7 as stated: headers() of a composite is the concatenation, in         *)
(* declared field order, of each field's own headers(), every entry        *)
(* prefixed by the field name and a dot, a field with no headers giving    *)
(* its bare name (the fields of an extra_fields struct follow).            *)
(***************************************************************************)
C7_FieldHeaders(f) ==
  LET hs == Headers(HeaderSource(f))
  IN IF Len(hs) = 0 THEN <<f.field_name>>
     ELSE [i \in 1..Len(hs) |-> f.field_name \o <<".">> \o hs[i]]

C7_Claimed(def) ==
  Flatten([i \in 1..Len(extract_field(def)) |-> C7_FieldHeaders(extract_field(def)[i])])
    \o (IF def.extra_fields.k # "none" THEN Headers(def.extra_fields) ELSE <<>>)

C7_HeadersConcatFieldHeaders ==
  (pc = "returned" /\ ret.op = "headers") => ret.val = C7_Claimed(TypeDef[typ])

(***************************************************************************)
(* C8 as stated: to_field(path) of a value of a generated composite, for   *)
(* a path returned by the type's headers(), never yields "field not        *)
(* found".                                                                 *)
(***************************************************************************)
C8_HeadersResolve ==
  (/\ pc = "returned"
   /\ ret.op = "to_field"
   /\ \E k \in 1..Len(Headers(T)) : Headers(T)[k] = ret.path)
    => ret.val # FieldNotFound

(***************************************************************************)
(* C9 as stated: the header paths a composite reports, in headers() and in *)
(* default_headers(), are the same when a field's type is Option<X>        *)
(* instead of X.                                                           *)
(***************************************************************************)
C9_Unwrapped(def) ==
  [def EXCEPT !.decl =
     [i \in 1..Len(def.decl) |->
        IF def.decl[i].typ.k = "Option"
        THEN [def.decl[i] EXCEPT !.typ = def.decl[i].typ.of]
        ELSE def.decl[i]]]

C9_OptionTransparent ==
  /\ (pc = "returned" /\ ret.op = "headers")
       => ret.val = StructHeaders(C9_Unwrapped(TypeDef[typ]))
  /\ (pc = "returned" /\ ret.op = "default_headers")
       => ret.val = StructDefaultHeaders(C9_Unwrapped(TypeDef[typ]))

(***************************************************************************)
(* C10 as stated: the display label of a column is header_name(path) when  *)
(* that returns a label, and otherwise the upper-snake-case form of the    *)
(* final segment of the path, the part after the last dot.                 *)
(***************************************************************************)
C10_Upper(s) == [i \in 1..Len(s) |-> ToUpperChar(s[i])]

C10_FinalSegment(h) == SubSeq(h, LastIndexOf(h, ".") + 1, Len(h))

C10_LabelFromFinalSegment ==
  WidthsKnown =>
    \A i \in 1..Len(headers) :
       header_names[i] =
         IF Len(HeaderName(T, headers[i])) = 1 THEN HeaderName(T, headers[i])[1]
         ELSE C10_Upper(C10_FinalSegment(headers[i]))

(***************************************************************************)
(* C10 amended: the display label of a column is header_name(path) when    *)
(* that returns a label, and otherwise the upper-snake-case form of the    *)
(* whole header path, dots kept (inner_foo.string gives INNER_FOO.STRING). *)
(***************************************************************************)
C10_LabelFromWholePath ==
  WidthsKnown =>
    \A i \in 1..Len(headers) :
       header_names[i] =
         IF Len(HeaderName(T, headers[i])) = 1 THEN HeaderName(T, headers[i])[1]
         ELSE C10_Upper(headers[i])

\* a finished render with a column of a nested path that has no declared label
C10_Witness ==
  /\ pc = "done"
  /\ \E i \in 1..Len(headers) :
       IndexOf(headers[i], ".") > 0 /\ Len(HeaderName(T, headers[i])) = 0

(***************************************************************************)
(* C11 as stated: when a header path asked for matches no declared field,  *)
(* the table render still finishes; the column of that path is present in  *)
(* every row and sized like any other, its cells hold the text "field not  *)
(* found", and every other cell and column is as in the render without     *)
(* that path.                                                              *)
(***************************************************************************)
C11_Sentinel == <<"f","i","e","l","d"," ","n","o","t"," ","f","o","u","n","d">>

\* the names a path can start with: the declared fields of the struct and
\* of its extra_fields struct
C11_Declared(def) ==
  {extract_field(def)[i].field_name : i \in 1..Len(extract_field(def))}
    \cup (IF def.extra_fields.k # "none"
          THEN {extract_field(TypeDef[def.extra_fields.n])[i].field_name :
                  i \in 1..Len(extract_field(TypeDef[def.extra_fields.n]))}
          ELSE {})

C11_Unresolved(path) == get_keys(path)[1] \notin C11_Declared(TypeDef[typ])

\* the header list with the unresolved paths taken out
C11_Without(hs) ==
  SelectIdx(hs, {i \in 1..Len(hs) : ~C11_Unresolved(hs[i])}, 1)

\* the place of column i in the render without the unresolved paths
C11_PlaceWithout(hs, i) ==
  Cardinality({j \in 1..i : ~C11_Unresolved(hs[j])})

\* the column widths of the render of the items under the header list hs
C11_Widths(hs) ==
  WidthsFrom([i \in 1..Len(hs) |-> Len(header_label(T, hs[i]))],
             [r \in 1..Len(items) |-> RowOf(T, items[r], hs)], 1)

\* column i is present in every row and as wide as its widest cell or label
C11_ColumnSized(i) ==
  /\ Len(header_names) = Len(headers)
  /\ \A r \in 1..Len(rows) : Len(rows[r]) = Len(headers)
  /\ col_widths[i] >= Len(header_names[i])
  /\ \A r \in 1..Len(rows) : col_widths[i] >= VisibleLength(rows[r][i])
  /\ \/ col_widths[i] = Len(header_names[i])
     \/ \E r \in 1..Len(rows) : col_widths[i] = VisibleLength(rows[r][i])

\* some path asked for matches no declared field
C11_SomeUnresolved == \E i \in 1..Len(headers) : C11_Unresolved(headers[i])

\* the resolved columns are those of the render without the unresolved paths
C11_OthersUntouched ==
  LET without == C11_Without(headers)
      widths  == C11_Widths(without)
      cells   == [r \in 1..Len(items) |-> RowOf(T, items[r], without)]
  IN \A i \in 1..Len(headers) :
        ~C11_Unresolved(headers[i]) =>
           LET k == C11_PlaceWithout(headers, i)
           IN /\ without[k] = headers[i]
              /\ col_widths[i] = widths[k]
              /\ \A r \in 1..Len(rows) : rows[r][i] = cells[r][k]

C11_UnresolvedCellIsSentinel ==
  (WidthsKnown /\ entry = "top" /\ C11_SomeUnresolved) =>
     /\ C11_OthersUntouched
     /\ \A i \in 1..Len(headers) :
          C11_Unresolved(headers[i]) =>
             /\ C11_ColumnSized(i)
             /\ \A r \in 1..Len(rows) : rows[r][i] = C11_Sentinel

(***************************************************************************)
(* C11 amended: when a header path asked for matches no declared field,    *)
(* the table render still finishes; the column of that path is present in  *)
(* every row and sized like any other, its cells hold the text "field not  *)
(* found" as the struct-level map function returns it when the struct      *)
(* declares one, and every other cell and column is as in the render       *)
(* without that path.                                                      *)
(***************************************************************************)
C11_UnresolvedCellIsMappedSentinel ==
  (WidthsKnown /\ entry = "top" /\ C11_SomeUnresolved) =>
     /\ C11_OthersUntouched
     /\ \A i \in 1..Len(headers) :
          C11_Unresolved(headers[i]) =>
             /\ C11_ColumnSized(i)
             /\ \A r \in 1..Len(rows) :
                   rows[r][i] =
                     IF TypeDef[typ].map = "" THEN C11_Sentinel
                     ELSE StructMapFn(TypeDef[typ].map, items[r], C11_Sentinel)

\* a finished render of some rows with an unresolved path among the columns
C11_Witness ==
  /\ pc = "done"
  /\ entry = "top"
  /\ Len(rows) > 0
  /\ Len(headers) > 1
  /\ \E i \in 1..Len(headers) : C11_Unresolved(headers[i])

(***************************************************************************)
(* C12: when a write to the sink fails during an object render or a table  *)
(* render, the render returns the error at once and writes nothing more;   *)
(* the bytes written before the failure stay in the sink.                  *)
(***************************************************************************)
C12_IsPrefix(a, b) == Len(a) <= Len(b) /\ SubSeq(b, 1, Len(a)) = a

C12_FailureStopsRender ==
  [][/\ C12_IsPrefix(out, out')
     /\ failed' => pc' = "error"
     /\ failed => (out' = out /\ pc' = "error")]_vars

\* an object render that failed after some of its write calls, part of the
\* failing call's bytes in the sink
C12_Witness ==
  /\ failed
  /\ entry = "object"
  /\ pos > 1
  /\ pos < Len(evs)
  /\ Len(out) > Len(TextOf(SubSeq(evs, 1, pos - 1)))

(***************************************************************************)
(* Vocabulary of the object view properties.                               *)
(***************************************************************************)
\* an object render has returned Ok(())
ObjectDone == pc = "done" /\ entry = "object"

\* the last step of the chain of a write call: the describe call making it
Maker(e) == e.chain[Len(e.chain)]

\* the write call is made by the describe generated for a struct
MadeByStruct(e) ==
  Maker(e).t.k = "named" /\ TypeDef[Maker(e).t.n].kind = "struct"

\* call i writes the title of a field and call i + 1 writes, on the same
\* line, the text of that field's value
TitledValue(i) ==
  /\ i < Len(evs)
  /\ evs[i].e = "write_title"
  /\ evs[i + 1].e = "write_value"
  /\ ~evs[i + 1].ctx.is_array
  /\ Len(evs[i + 1].chain) > Len(evs[i].chain)
  /\ SubSeq(evs[i + 1].chain, 1, Len(evs[i].chain)) = evs[i].chain

\* the column of the line at which the value text of call i + 1 starts
ValueColumn(i) ==
  (Len(evs[i].text) - 1) + (Len(evs[i + 1].text) - Len(evs[i + 1].field))

\* s ends with exactly one line break
EndsWithOneNewline(s) ==
  /\ Len(s) >= 1
  /\ s[Len(s)] = "\n"
  /\ Len(s) >= 2 => s[Len(s) - 1] # "\n"

(***************************************************************************)
(* C13 as stated: in the object view the label column of a composite is    *)
(* one wider than its longest field label, so the values of its scalar     *)
(* fields all start at the same column, and the whole output ends with a   *)
(* single line break.  The width is read for a composite rendered on its   *)
(* own, one that neither has flattened fields nor is flattened or appended *)
(* into another (C16 covers those).                                        *)
(***************************************************************************)
C13_Longest(def) ==
  MaxOf({Len(Title(extract_field(def)[k].field_name)) :
           k \in 1..Len(extract_field(def))})

C13_OnItsOwn(e) ==
  /\ MadeByStruct(e)
  /\ Maker(e).via # "pad"
  /\ \A k \in 1..Len(TypeDef[Maker(e).t.n].decl) :
        ~TypeDef[Maker(e).t.n].decl[k].flatten

C13_LabelColumnAndNewline ==
  ObjectDone =>
    /\ out = TextOf(evs)
    /\ \A i \in 1..Len(evs) :
         (TitledValue(i) /\ C13_OnItsOwn(evs[i])) =>
            LET longest == C13_Longest(TypeDef[Maker(evs[i]).t.n])
            IN /\ evs[i + 1].ctx.pad = longest + 1
               /\ ValueColumn(i) = evs[i].ctx.offset + longest + 2
    /\ EndsWithOneNewline(out)

(***************************************************************************)
(* C14: along every chain of Contexts of one render the offset is never    *)
(* negative, a step into a nested level (indent, indent_and_table) raises  *)
(* it by exactly 2, every other step (pad, array, a copy, a hand-over)     *)
(* leaves it unchanged, and the sibling fields of one composite are all    *)
(* written at the composite's offset, which therefore never decreases      *)
(* while they are traversed.                                               *)
(***************************************************************************)
\* the column at which the label of a title call starts
C14_LabelColumn(e) == Len(e.text) - 1 - (Len(e.field) + 1)

C14_ChainOffsets(chain) ==
  /\ chain[1].via = "root"
  /\ \A k \in 1..Len(chain) : chain[k].ctx.offset >= 0
  /\ \A k \in 2..Len(chain) :
        /\ chain[k].via
             \in {"indent", "indent_and_table", "pad", "array", "clone", "same"}
        /\ chain[k].via \in {"indent", "indent_and_table"}
             => chain[k].ctx.offset = chain[k - 1].ctx.offset + 2
        /\ chain[k].via \in {"pad", "array", "clone", "same"}
             => chain[k].ctx.offset = chain[k - 1].ctx.offset

C14_OffsetAlongChains ==
  entry = "object" =>
    /\ \A i \in 1..Len(evs) : C14_ChainOffsets(evs[i].chain)
    /\ \A i, j \in 1..Len(evs) :
         (/\ i < j
          /\ evs[i].e = "write_title"
          /\ evs[j].e = "write_title"
          /\ evs[i].chain = evs[j].chain)
           => /\ C14_LabelColumn(evs[i]) = Here(evs[i].chain).offset
              /\ C14_LabelColumn(evs[j]) >= C14_LabelColumn(evs[i])

\* a finished render with a write call three levels down, reached through
\* an indent, an array and a second indent, after a sibling was written
C14_Witness ==
  /\ ObjectDone
  /\ \E i \in 2..Len(evs) :
       /\ Len(evs[i].chain) = 4
       /\ evs[i].chain[2].via = "indent"
       /\ evs[i].chain[3].via = "array"
       /\ evs[i].chain[4].via = "indent"
       /\ evs[i].ctx.offset = 4
       /\ evs[i - 1].e = "write_title"

(***************************************************************************)
(* C15: a flattened field writes no title of its own; the fields of its    *)
(* value are written in declared order, at the indentation of the fields   *)
(* of the enclosing composite, at the place of the flattened field among   *)
(* them.                                                                   *)
(***************************************************************************)
\* the step describes a field marked flatten
IsFlattenStep(st) == st.via = "pad" /\ st.ix > 0

\* chain d continues chain c by flatten steps only
FlattenedInto(c, d) ==
  /\ Len(c) <= Len(d)
  /\ SubSeq(d, 1, Len(c)) = c
  /\ \A k \in (Len(c) + 1)..Len(d) : IsFlattenStep(d[k])

\* the title calls of the composite described at chain c and of the
\* composites flattened into it, in the order they are made
GroupTitles(c) ==
  SelectIdx(evs, {i \in 1..Len(evs) :
                    evs[i].e = "write_title" /\ FlattenedInto(c, evs[i].chain)}, 1)

\* the labels of a composite with the labels of every flattened field's
\* type put in the place of that field
RECURSIVE C15_Labels(_)
C15_Labels(t) ==
  LET fs == extract_field(TypeDef[t.n])
  IN Flatten([k \in 1..Len(fs) |->
                IF fs[k].skip_description THEN <<>>
                ELSE IF fs[k].flatten THEN C15_Labels(fs[k].typ)
                ELSE <<Title(fs[k].field_name)>>])

\* the chains of the composites described in the render
StructChains ==
  UNION {{SubSeq(evs[i].chain, 1, k) : k \in 1..Len(evs[i].chain)} :
           i \in 1..Len(evs)}

C15_IsStruct(st) ==
  /\ st.t.k = "named"
  /\ TypeDef[st.t.n].kind = "struct"
  /\ TypeDef[st.t.n].into.k = "none"

C15_FlattenedFieldsInline ==
  ObjectDone =>
    \A c \in StructChains :
       C15_IsStruct(c[Len(c)]) =>
          /\ [i \in 1..Len(GroupTitles(c)) |-> GroupTitles(c)[i].field]
               = C15_Labels(c[Len(c)].t)
          /\ \A i \in 1..Len(GroupTitles(c)) :
                C14_LabelColumn(GroupTitles(c)[i]) = Here(c).offset

\* a finished render in which a field of a flattened value was written and
\* a field of the enclosing composite after it
C15_Witness ==
  /\ ObjectDone
  /\ \E i, j \in 1..Len(evs) :
       /\ i < j
       /\ evs[i].e = "write_title"
       /\ evs[j].e = "write_title"
       /\ Len(evs[i].chain) = Len(evs[j].chain) + 1
       /\ FlattenedInto(evs[j].chain, evs[i].chain)

(***************************************************************************)
(* C16: for a composite with flattened fields at any depth, the pad used   *)
(* for every label of the flattened group is the largest of the            *)
(* composite's own label width, the pad requirement of every flattened     *)
(* child and the pad proposed by the parent, so the values of the whole    *)
(* group start at one column.                                              *)
(***************************************************************************)
\* the names of the fields of a composite and of every composite flattened
\* into it, at any depth
RECURSIVE C16_Names(_)
C16_Names(t) ==
  LET fs == extract_field(TypeDef[t.n])
  IN {fs[k].field_name : k \in 1..Len(fs)}
       \cup UNION {C16_Names(fs[k].typ) : k \in {j \in 1..Len(fs) : fs[j].flatten}}

\* the widest requirement of the group: one more than its longest label
C16_GroupWidth(t) ==
  IF C16_Names(t) = {} THEN 0
  ELSE MaxOf({Len(Title(nm)) : nm \in C16_Names(t)}) + 1

\* the pad of the group described at chain c
C16_GroupPad(c) == Max2(C16_GroupWidth(c[Len(c)].t), Here(c).upper_pad)

\* chain c is that of the top composite of a flattened group
C16_IsGroupTop(c) == C15_IsStruct(c[Len(c)]) /\ ~IsFlattenStep(c[Len(c)])

C16_GroupPadIsMax ==
  ObjectDone =>
    \A c \in StructChains :
       C16_IsGroupTop(c) =>
          \A i \in 1..Len(evs) :
             (evs[i].e = "write_title" /\ FlattenedInto(c, evs[i].chain)) =>
                /\ evs[i + 1].chain[Len(evs[i].chain) + 1].via
                     \in {"indent", "indent_and_table"}
                /\ evs[i + 1].chain[Len(evs[i].chain) + 1].via = "indent"
                     => evs[i + 1].chain[Len(evs[i].chain) + 1].ctx.pad
                          = C16_GroupPad(c)
                /\ TitledValue(i)
                     => ValueColumn(i) = Here(c).offset + C16_GroupPad(c) + 1

\* a finished render of a group two flattenings deep whose widest label
\* belongs to a flattened child
C16_Witness ==
  /\ ObjectDone
  /\ typ = "Narrow"
  /\ \E i \in 1..Len(evs) :
       /\ TitledValue(i)
       /\ Len(evs[i].chain) = 3
       /\ IsFlattenStep(evs[i].chain[2])
       /\ IsFlattenStep(evs[i].chain[3])
       /\ evs[i + 1].ctx.pad > pad_struct(TypeDef[evs[i].chain[3].t.n])

(***************************************************************************)
(* C17 as stated: flattening is associative.  The object view of a         *)
(* composite C that flattens B, B flattening A, has the label pad and the  *)
(* field order of the composite that declares B's fields in B's place and  *)
(* flattens A itself, whatever the names of the flattened fields.          *)
(***************************************************************************)
\* the composites of the model that declare, in the place of the flattened
\* field of the first, the fields of that field's type
C17_Inlined == [FlatFoo |-> "FlatInline", Wide |-> "WideInline",
                Narrow |-> "WideInline"]

\* the place of the flattened field of a declaration
C17_FlatAt(decl) == CHOOSE k \in 1..Len(decl) : decl[k].flatten

\* the declaration with the fields of the flattened field's type in its place
C17_InlineDecl(decl) ==
  LET k == C17_FlatAt(decl)
  IN SubSeq(decl, 1, k - 1) \o TypeDef[decl[k].typ.n].decl
       \o SubSeq(decl, k + 1, Len(decl))

\* the value with the fields of the flattened value in its place
C17_InlineValue(decl, v) ==
  LET k == C17_FlatAt(decl)
  IN SubSeq(v, 1, k - 1) \o v[k] \o SubSeq(v, k + 1, Len(v))

\* the labels of a sequence of write calls, each with the pad handed to
\* the value written after it
C17_LabelsAndPads(calls) ==
  LET titles == SelectIdx([i \in 1..Len(calls) |-> i],
                          {i \in 1..Len(calls) : calls[i].e = "write_title"}, 1)
  IN [n \in 1..Len(titles) |->
        <<calls[titles[n]].field, calls[titles[n] + 1].ctx.pad>>]

C17_FlattenAssociative ==
  (ObjectDone /\ typ \in DOMAIN C17_Inlined) =>
     /\ TypeDef[C17_Inlined[typ]].decl = C17_InlineDecl(TypeDef[typ].decl)
     /\ C17_LabelsAndPads(evs)
          = C17_LabelsAndPads(
              describe_object(Named(C17_Inlined[typ]),
                              C17_InlineValue(TypeDef[typ].decl, items[obj]),
                              Context_default))

(***************************************************************************)
(* C18 as stated: an empty sequence renders as "~"; a sequence that is not *)
(* empty renders its elements in order, each element, of whatever          *)
(* describable type, starting on a new line with exactly one "- " bullet   *)
(* at the indentation of the field that holds the sequence, the further    *)
(* lines of the element indented 2 more.                                   *)
(***************************************************************************)
C18_StartsWith(s, p) == Len(p) <= Len(s) /\ SubSeq(s, 1, Len(p)) = p

\* the chains of the sequences described by Vec::describe
C18_VecChains ==
  {c \in StructChains :
     c[Len(c)].t.k = "Vec" /\ c[Len(c)].via # "indent_and_table"}

\* the places of the elements of the sequence at chain c that wrote something
C18_Elements(c) ==
  {evs[i].chain[Len(c) + 1].ix : i \in {j \in 1..Len(evs) :
      /\ Len(evs[j].chain) > Len(c)
      /\ SubSeq(evs[j].chain, 1, Len(c)) = c}}

\* the write calls of element n of the sequence at chain c
C18_ElementCalls(c, n) ==
  SelectIdx(evs, {i \in 1..Len(evs) :
                    /\ Len(evs[i].chain) > Len(c)
                    /\ SubSeq(evs[i].chain, 1, Len(c)) = c
                    /\ evs[i].chain[Len(c) + 1].ix = n}, 1)

\* the text of an element: a line break, the bullet at column o, and every
\* further line at column o + 2 or beyond
C18_Bulleted(text, o) ==
  LET ls == Lines(text)
  IN /\ Len(ls) >= 2
     /\ ls[1] = <<>>
     /\ C18_StartsWith(ls[2], Spaces(o) \o <<"-", " ">>)
     /\ \A k \in 3..Len(ls) : C18_StartsWith(ls[k], Spaces(o + 2))

C18_SequenceBullets ==
  ObjectDone =>
    /\ \A i \in 1..Len(evs) :
         Maker(evs[i]).t.k = "Vec" /\ evs[i].e = "write_value"
           => evs[i].field = Tombstone
    /\ \A c \in C18_VecChains :
         /\ C18_Elements(c) = 1..Cardinality(C18_Elements(c))
         /\ \A n \in C18_Elements(c) :
               C18_Bulleted(TextOf(C18_ElementCalls(c, n)), Here(c).offset - 2)
         /\ \A i, j \in 1..Len(evs) :
               (/\ i < j
                /\ Len(evs[i].chain) > Len(c)
                /\ Len(evs[j].chain) > Len(c)
                /\ SubSeq(evs[i].chain, 1, Len(c)) = c
                /\ SubSeq(evs[j].chain, 1, Len(c)) = c)
                 => evs[i].chain[Len(c) + 1].ix <= evs[j].chain[Len(c) + 1].ix

(***************************************************************************)
(* C19: an empty keyed map renders as "~"; a map that is not empty renders *)
(* exactly one block per key, the keys in ascending sorted order, so the   *)
(* output is the same whatever order the entries were inserted in.         *)
(***************************************************************************)
\* a comes before b in the byte order of strings
C19_Before(a, b) ==
  \E k \in 1..(Len(b)) :
     /\ k <= Len(a) + 1
     /\ SubSeq(a, 1, k - 1) = SubSeq(b, 1, k - 1)
     /\ \/ k = Len(a) + 1
        \/ \E x, y \in 1..26 :
              x < y /\ LowerLetters[x] = a[k] /\ LowerLetters[y] = b[k]

\* the orders in which the iterator of the map can yield the entries of m
C19_Orders(m) ==
  {n \in [1..Len(m) -> {m[i] : i \in 1..Len(m)}] :
     \A i, j \in 1..Len(n) : i # j => n[i] # n[j]}

\* the title calls made by HashMap::describe for the map at chain c
C19_KeyTitles(c) ==
  SelectIdx(evs, {i \in 1..Len(evs) :
                    evs[i].e = "write_title" /\ evs[i].chain = c}, 1)

C19_MapSortedDeterministic ==
  (ObjectDone /\ typ = "MapB") =>
     LET m == items[obj][1]
         c == Step(Root(Context_default, T), "indent", 1,
                   indent(Context_default, struct_pad(T), Len(Title(n_map))),
                   MapOf(TU64))
         ks == C19_KeyTitles(c)
     IN /\ Len(m) = 0 =>
             /\ Len(evs) = 3
             /\ evs[2].e = "write_value"
             /\ evs[2].field = Tombstone
        /\ Len(m) > 0 =>
             /\ Len(ks) = Len(m)
             /\ {ks[i].field : i \in 1..Len(ks)} = {m[i][1] : i \in 1..Len(m)}
             /\ \A i \in 1..(Len(ks) - 1) : C19_Before(ks[i].field, ks[i + 1].field)
             /\ Len(evs) = 2 * Len(m) + 2
        /\ \A n \in C19_Orders(m) :
             TextOf(describe_object(T, <<n>>, Context_default)) = out

\* a finished render of a map whose iterator yielded a larger key first
C19_Witness ==
  /\ ObjectDone
  /\ typ = "MapB"
  /\ Len(items[obj][1]) = 2
  /\ C19_Before(items[obj][1][2][1], items[obj][1][1][1])

(***************************************************************************)
(* C20: describing Some(v) under a Context writes exactly the bytes that   *)
(* describing v under that Context writes; describing None writes "~" by   *)
(* the value-writing rule of the Context and is never an error.            *)
(***************************************************************************)
\* what a write call does, the types of its chain left aside
C20_Writes(calls) ==
  [i \in 1..Len(calls) |-> <<calls[i].e, calls[i].ctx, calls[i].text>>]

\* the value with every Some(v) held by an Option field replaced by v
C20_UnwrapValue(decl, v) ==
  [k \in 1..Len(v) |-> IF decl[k].typ.k = "Option" THEN v[k][1] ELSE v[k]]

\* the value-writing rule of a Context applied to "~"
C20_TombstoneText(c) ==
  IF c.is_array THEN <<"\n">> \o Spaces(c.offset - 2) \o <<"-", " ", "~">>
  ELSE Spaces(c.pad - c.title_size) \o <<"~">>

C20_OptionTransparent ==
  ObjectDone =>
    /\ (typ = "OuterOpt" /\ Len(items[obj][1]) = 1) =>
          /\ TypeDef["Outer"] = C9_Unwrapped(TypeDef[typ])
          /\ C20_Writes(evs)
               = C20_Writes(describe_object(
                   Named("Outer"),
                   C20_UnwrapValue(TypeDef[typ].decl, items[obj]),
                   Context_default))
          /\ out = TextOf(describe_object(
                      Named("Outer"),
                      C20_UnwrapValue(TypeDef[typ].decl, items[obj]),
                      Context_default))
    /\ \A i \in 1..Len(evs) :
          Maker(evs[i]).t.k = "Option" =>
             /\ evs[i].e = "write_value"
             /\ evs[i].field = <<"~">>
             /\ evs[i].ctx = Here(evs[i].chain)
             /\ evs[i].text = C20_TombstoneText(Here(evs[i].chain))
             /\ ~evs[i].ovf
    /\ \A k \in 1..Len(TypeDef[typ].decl) :
          (TypeDef[typ].decl[k].typ.k = "Option" /\ Len(items[obj][k]) = 0) =>
             \E i \in 1..Len(evs) :
                Maker(evs[i]).t.k = "Option" /\ Maker(evs[i]).ix = k

\* a finished render of a composite with a field holding Some(v), v a
\* composite itself
C20_Witness ==
  /\ ObjectDone
  /\ typ = "OuterOpt"
  /\ Len(items[obj][1]) = 1
  /\ Len(evs) > 3

(***************************************************************************)
(* C21: every line of a table embedded in an object view, the header row   *)
(* and each data row, starts exactly 2 columns further right than the      *)
(* title lines of the composite that holds the embedded-table field.       *)
(***************************************************************************)
\* the number of spaces a line starts with
C21_Lead(line) ==
  IF \A q \in 1..Len(line) : line[q] = " " THEN Len(line)
  ELSE (CHOOSE q \in 1..Len(line) :
          line[q] # " " /\ \A r \in 1..(q - 1) : line[r] = " ") - 1

\* the header row and the data rows of the table written by call i: the
\* lines after the line break that follows the field's title
C21_TableLines(i) ==
  LET ls == Lines(Tail(evs[i].text))
  IN SelectIdx(ls, {k \in 1..Len(ls) : Len(ls[k]) > 0}, 1)

\* the column at which the title of the embedded-table field starts
C21_TitleColumn(i) == C21_Lead(Lines(evs[i - 1].text)[2])

C21_EmbeddedTableTwoFurther ==
  entry = "object" =>
    \A i \in 1..Len(evs) :
       evs[i].e = "describe_table" =>
          /\ i > 1
          /\ evs[i - 1].e = "write_title"
          /\ evs[i - 1].chain = SubSeq(evs[i].chain, 1, Len(evs[i].chain) - 1)
          /\ C21_TitleColumn(i) = evs[i - 1].ctx.offset
          /\ Len(C21_TableLines(i)) >= 1
          /\ \A k \in 1..Len(C21_TableLines(i)) :
                C21_Lead(C21_TableLines(i)[k]) = C21_TitleColumn(i) + 2

\* a finished render with a table of two data rows embedded in a composite
\* that is itself nested, its titles at column 2
C21_Witness ==
  /\ ObjectDone
  /\ out = TextOf(evs)
  /\ \E i \in 2..Len(evs) :
        /\ evs[i].e = "describe_table"
        /\ C21_TitleColumn(i) = 2
        /\ Len(C21_TableLines(i)) = 3

(***************************************************************************)
(* C22 as stated: for a composite that declares struct-level into = U,     *)
(* both its object description and its to_field result for every path are  *)
(* exactly those of the converted U value.                                 *)
(***************************************************************************)
\* the struct declares struct-level into
C22_Delegates == TypeDef[typ].into.k # "none"

\* the U value the item at place i converts to
C22_Converted(i) == IntoFn(TypeDef[typ].into, items[i])

\* the write calls of a render, the route to each left out
C22_Writes(calls) ==
  [k \in 1..Len(calls) |->
     [e |-> calls[k].e, ctx |-> calls[k].ctx, text |-> calls[k].text]]

\* the object description is that of the converted value
C22_DescribeDelegated ==
  (entry = "object" /\ C22_Delegates) =>
     /\ C22_Writes(evs)
          = C22_Writes(describe_object(TypeDef[typ].into, C22_Converted(obj),
                                       Context_default))
     /\ ObjectDone =>
          out = TextOf(describe_object(TypeDef[typ].into, C22_Converted(obj),
                                       Context_default))

C22_IntoDelegatesAll ==
  /\ C22_DescribeDelegated
  /\ (ret.op = "to_field" /\ C22_Delegates) =>
        ret.val = ToField(TypeDef[typ].into, C22_Converted(ret.item), ret.path)

(***************************************************************************)
(* C22 amended: for a composite that declares struct-level into = U, its   *)
(* object description is exactly that of the converted U value; its        *)
(* to_field is not delegated: a path is resolved among the composite's own *)
(* declared fields, h or h.r giving to_field(r) of the declared field h,   *)
(* and a path that names none of them gives "field not found", a field of  *)
(* U included.                                                             *)
(***************************************************************************)
\* the places in the declaration of the field a path starts with
C22_Own(path) ==
  {k \in 1..Len(TypeDef[typ].decl) :
     TypeDef[typ].decl[k].field_name = get_keys(path)[1]}

C22_IntoDelegatesDescribeOnly ==
  /\ C22_DescribeDelegated
  /\ (ret.op = "to_field" /\ C22_Delegates) =>
        IF C22_Own(ret.path) = {} THEN ret.val = FieldNotFound
        ELSE \E k \in C22_Own(ret.path) :
                ret.val = ToField(TypeDef[typ].decl[k].typ, items[ret.item][k],
                                  get_keys(ret.path)[2])

\* to_field of a struct with struct-level into was asked for a field of U,
\* and the object render that followed has finished
C22_Witness ==
  /\ ObjectDone
  /\ C22_Delegates
  /\ Len(out) > 1
  /\ ret.op = "to_field"
  /\ ret.item = obj
  /\ ret.path = n_recv

(***************************************************************************)
(* C23: for a composite that declares extra (synthetic) fields, the        *)
(* synthetic fields come after all of its declared fields, as lines of the *)
(* object view and as columns of the table, and a path that names a        *)
(* declared field resolves to the declared field's value, never to a       *)
(* synthetic field of the same name, so the column of a synthetic field    *)
(* that shares its name with a declared field shows the declared value.    *)
(* The composites explored declare scalar fields only.                     *)
(***************************************************************************)
C23_HasExtra == TypeDef[typ].extra_fields.k # "none"

\* the names of the declared fields, and of the fields of the synthetic struct
C23_Declared == [k \in 1..Len(TypeDef[typ].decl) |-> TypeDef[typ].decl[k].field_name]

C23_Synthetic ==
  LET d == TypeDef[TypeDef[typ].extra_fields.n].decl
  IN [k \in 1..Len(d) |-> d[k].field_name]

\* the synthetic value of the item at place i, as its From impl builds it
C23_SyntheticValue(i) == <<items[i][1] \o <<"-">> \o items[i][2]>>

\* the title calls of the render with the text of the value that follows
C23_Lines ==
  SelectIdx([i \in 1..Len(evs) |->
               IF TitledValue(i)
               THEN <<evs[i].field, evs[i + 1].field>> ELSE <<>>],
            {i \in 1..Len(evs) : evs[i].e = "write_title"}, 1)

C23_ObjectLines ==
  (entry = "object" /\ C23_HasExtra) =>
     C23_Lines
       = [k \in 1..Len(C23_Declared) |-> <<Title(C23_Declared[k]), items[obj][k]>>]
           \o [k \in 1..Len(C23_Synthetic) |->
                 <<Title(C23_Synthetic[k]), C23_SyntheticValue(obj)[k]>>]

C23_TableColumns ==
  (WidthsKnown /\ entry = "top" /\ C23_HasExtra) =>
     /\ headers = C23_Declared \o C23_Synthetic
     /\ \A r \in 1..Len(rows) :
           /\ Len(rows[r]) = Len(headers)
           /\ \A k \in 1..Len(C23_Declared) : rows[r][k] = items[r][k]
           /\ \A j \in 1..Len(C23_Synthetic) :
                 rows[r][Len(C23_Declared) + j] =
                   IF \E k \in 1..Len(C23_Declared) :
                         C23_Declared[k] = C23_Synthetic[j]
                   THEN items[r][CHOOSE k \in 1..Len(C23_Declared) :
                                   C23_Declared[k] = C23_Synthetic[j]]
                   ELSE C23_SyntheticValue(r)[j]

C23_DeclaredWins ==
  (ret.op = "to_field" /\ C23_HasExtra) =>
     \A k \in 1..Len(C23_Declared) :
        get_keys(ret.path)[1] = C23_Declared[k] => ret.val = items[ret.item][k]

C23_ExtraFieldsAfterDeclared ==
  /\ C23_ObjectLines
  /\ C23_TableColumns
  /\ C23_DeclaredWins

\* to_field was asked for a declared field whose name the synthetic struct
\* has too, with another value there, and the object render that followed
\* has finished
C23_Witness ==
  /\ ObjectDone
  /\ C23_HasExtra
  /\ ret.op = "to_field"
  /\ ret.item = obj
  /\ \E k \in 1..Len(C23_Declared) : \E j \in 1..Len(C23_Synthetic) :
        /\ ret.path = C23_Declared[k]
        /\ C23_Declared[k] = C23_Synthetic[j]
        /\ items[obj][k] # C23_SyntheticValue(obj)[j]

(***************************************************************************)
(* C24: in a table render to_field is invoked exactly once per pair of an  *)
(* item and a header path, all these invocations are made before the first *)
(* byte of the header row is written, and no other step of the render      *)
(* (label resolution, width computation, emission) invokes to_field.  The  *)
(* per-field transforms run inside to_field only.                          *)
(***************************************************************************)
\* how often the render has asked the item at place r for the path of column i
C24_Count(r, i) ==
  Cardinality({k \in 1..Len(invoked) : invoked[k] = <<r, headers[i]>>})

\* one invocation for every column of each of the first n items, no other
C24_OncePerPair(n) ==
  /\ Len(invoked) = n * Len(headers)
  /\ \A r \in 1..n : \A i \in 1..Len(headers) : C24_Count(r, i) = 1

\* no byte of the header row is written yet
C24_NothingOfTheTable ==
  out = IF entry = "embedded" THEN <<"\n">> ELSE <<>>

C24_InTable == entry \in {"top", "embedded"}

C24_Steps ==
  /\ (C24_InTable /\ pc = "rows") =>
        (C24_NothingOfTheTable /\ C24_OncePerPair(Len(rows)))
  /\ (C24_InTable /\ pc \in {"widths", "print", "return", "done"}) =>
        C24_OncePerPair(Len(items))

C25_Head(path) ==
  IF IndexOf(path, ".") = 0 THEN path
  ELSE SubSeq(path, 1, IndexOf(path, ".") - 1)

\* the part after the first dot, empty when the path has none
C25_Rest(path) ==
  IF IndexOf(path, ".") = 0 THEN <<>>
  ELSE SubSeq(path, IndexOf(path, ".") + 1, Len(path))

\* the declared fields of the item type with their places in the value
C25_Fields ==
  [k \in 1..Len(TypeDef[typ].decl) |-> [TypeDef[typ].decl[k] EXCEPT !.ix = k]]

\* every path asked of a scalar gives the scalar's text
C25_ScalarIgnoresPath ==
  \A n \in ScalarNames : \A v \in ScalarValues(n) :
     \A p \in {<<>>, Bogus, n_parent \o <<".">> \o Bogus} :
        ToField(Named(n), v, p) = v

C25_SplitOnceAtFirstDot ==
  /\ C25_ScalarIgnoresPath
  /\ ret.op = "to_field" =>
        \A k \in 1..Len(C25_Fields) :
           C25_Fields[k].field_name = C25_Head(ret.path) =>
              ret.val = ToField(C25_Fields[k].typ, items[ret.item][k],
                                C25_Rest(ret.path))

(***************************************************************************)
(* C25 amended: dotted-path resolution splits once at the first dot: for a *)
(* composite, to_field(h.r) with h the name of a declared field that is    *)
(* not marked skip is to_field(r) of that field's value after the          *)
(* conversion the field declares (map, into, the unwrapping of             *)
(* resolve_option), r keeping any further dots and empty when the path has *)
(* no dot, passed through the struct-level map function when the struct    *)
(* declares one; a scalar returns its own text for every path.             *)
(***************************************************************************)
C25_SplitOnceThenConvert ==
  /\ C25_ScalarIgnoresPath
  /\ ret.op = "to_field" =>
        \A k \in 1..Len(C25_Fields) :
           (C25_Fields[k].field_name = C25_Head(ret.path) /\ ~C25_Fields[k].skip) =>
              LET g == field_getter(C25_Fields[k], items[ret.item])
                  text == ToField(g.typ, g.val, C25_Rest(ret.path))
              IN ret.val = IF TypeDef[typ].map = "" THEN text
                           ELSE StructMapFn(TypeDef[typ].map, items[ret.item], text)

\* to_field was asked for a path with two dots that ends below a scalar and
\* answered with the scalar's text
C25_Witness ==
  /\ ret.op = "to_field"
  /\ typ = "Bar"
  /\ ret.path = n_inner_foo \o <<".">> \o n_string \o <<".">> \o Bogus
  /\ ret.val = items[ret.item][1][1]

(***************************************************************************)
(* C26: when a composite declares a struct-level map function, every text  *)
(* its to_field returns, hence every cell of its table rows, for every     *)
(* header path, nested and unresolved paths included, is that function     *)
(* applied to the item and the text the path would otherwise resolve to.   *)
(***************************************************************************)
\* the text a path resolves to among the declared fields of the struct n,
\* none of which declares a conversion
C26_Otherwise(n, v, path) ==
  LET d == TypeDef[n].decl
      hit == {k \in 1..Len(d) : d[k].field_name = C25_Head(path)}
  IN IF hit = {} THEN FieldNotFound
     ELSE LET k == CHOOSE k \in hit : TRUE
          IN ToField(d[k].typ, v[k], C25_Rest(path))

\* the struct-level function of the struct n applied to the item and a text
C26_Mapped(n, v, text) ==
  CASE TypeDef[n].map = "map_all" -> map_all(v, text)

\* what to_field of the item type gives for a path: the mapped text for a
\* struct that declares the function, and for a struct that holds such a
\* struct in its first field and is asked for a path into it
C26_Expected(v, path) ==
  IF TypeDef[typ].map # ""
  THEN C26_Mapped(typ, v, C26_Otherwise(typ, v, path))
  ELSE LET inner == TypeDef[typ].decl[1].typ.n
       IN C26_Mapped(inner, v[1], C26_Otherwise(inner, v[1], C25_Rest(path)))

\* the struct declares the function, or its first field is of a struct that
\* does and the path leads into that field
C26_Applies(path) ==
  \/ TypeDef[typ].map # ""
  \/ /\ Len(TypeDef[typ].decl) > 0
     /\ TypeDef[typ].decl[1].typ.k = "named"
     /\ TypeDef[TypeDef[typ].decl[1].typ.n].kind = "struct"
     /\ TypeDef[TypeDef[typ].decl[1].typ.n].map # ""
     /\ C25_Head(path) = TypeDef[typ].decl[1].field_name

C26_StructMapOnEveryText ==
  /\ (ret.op = "to_field" /\ C26_Applies(ret.path)) =>
        ret.val = C26_Expected(items[ret.item], ret.path)
  /\ (WidthsKnown /\ entry = "top") =>
        \A r \in 1..Len(rows) : \A i \in 1..Len(headers) :
           C26_Applies(headers[i]) =>
              rows[r][i] = C26_Expected(items[r], headers[i])

\* to_field of an item the function rewrites was asked for an unresolved
\* path, and the table render that followed has finished
C26_Witness ==
  /\ pc = "done"
  /\ entry = "top"
  /\ TypeDef[typ].map # ""
  /\ Len(rows) = 1
  /\ ret.op = "to_field"
  /\ ret.path = Bogus
  /\ ret.val = <<"-">>
  /\ rows[1] = <<<<"-">>, <<"-">>>>

\* the function leaves the texts of an item as they are, the nested path
\* below a scalar included
C26_WitnessKept ==
  /\ ret.op = "to_field"
  /\ typ = "MapBox"
  /\ ret.path = n_inner \o <<".">> \o n_number \o <<".">> \o Bogus
  /\ ret.val = <<"1">>

(***************************************************************************)
(* C27 as stated: in every render started through the public entry points  *)
(* with the default Context, a bare top-level sequence included, each time *)
(* a bullet is written (write_title for a first field in array mode, or    *)
(* write_value in array mode) the Context's offset is at least 2, so the    *)
(* indentation offset - 2 never goes below zero.                           *)
(***************************************************************************)
\* the write call writes a bullet
C27_WritesBullet(e) ==
  \/ e.e = "write_title" /\ e.first_field /\ e.ctx.is_array
  \/ e.e = "write_value" /\ e.ctx.is_array

C27_BulletOffsetAtLeastTwo ==
  /\ pc \notin OverflowOutcomes
  /\ entry = "object" =>
        \A i \in 1..Len(evs) :
           C27_WritesBullet(evs[i]) => evs[i].ctx.offset >= 2

(***************************************************************************)
(* C28: in every object render started from the default Context, each call *)
(* of write_value outside array mode has pad >= title_size, so the padding *)
(* width pad - title_size never goes below zero, for every nesting of      *)
(* composites, flattened fields, extra fields, optionals, sequences and     *)
(* maps.                                                                   *)
(***************************************************************************)
\* the write call pads a value to the label column
C28_PadsValue(e) == e.e = "write_value" /\ ~e.ctx.is_array

C28_PadAtLeastTitle ==
  entry = "object" =>
    /\ \A i \in 1..Len(evs) :
          C28_PadsValue(evs[i]) =>
             /\ evs[i].ctx.pad >= evs[i].ctx.title_size
             /\ Len(evs[i].text)
                  = evs[i].ctx.pad - evs[i].ctx.title_size + Len(evs[i].field)
    /\ pc \in OverflowOutcomes => ~C28_PadsValue(evs[pos])

\* a value padded by one space only, reached through a step via below a
\* value of the kind k
C28_TightAfter(via, k) ==
  \E i \in 1..Len(evs) :
     /\ C28_PadsValue(evs[i])
     /\ evs[i].ctx.title_size > 0
     /\ evs[i].ctx.pad = evs[i].ctx.title_size + 1
     /\ \E j \in 1..Len(evs[i].chain) :
           evs[i].chain[j].via = via /\ evs[i].chain[j].t.k = k

\* a finished render of a map whose entries hold a composite: the scalar of
\* the composite, four calls below the root, was padded, and a value under
\* a map was padded by the single space that follows the longest label
C28_Witness ==
  /\ ObjectDone
  /\ C28_TightAfter("indent", "Map")
  /\ \E i \in 1..Len(evs) :
        /\ C28_PadsValue(evs[i])
        /\ MadeByStruct(evs[i]) = FALSE
        /\ \E j \in 1..Len(evs[i].chain) : evs[i].chain[j].t.k = "Map"
        /\ Len(evs[i].chain) >= 4

(***************************************************************************)
(* C29 as stated: in the object view of a composite that declares extra    *)
(* (synthetic) fields, the values of the synthetic fields start at the     *)
(* same column as the values of the composite's own declared fields, for   *)
(* all label lengths of the declared and of the synthetic fields.          *)
(***************************************************************************)
\* call j is a title of the synthetic struct appended to the composite that
\* writes the title of call i
C29_SyntheticOf(i, j) ==
  /\ Len(evs[j].chain) = Len(evs[i].chain) + 1
  /\ SubSeq(evs[j].chain, 1, Len(evs[i].chain)) = evs[i].chain
  /\ Maker(evs[j]).via = "pad"
  /\ Maker(evs[j]).ix = 0

C29_ExtraValuesAligned ==
  entry = "object" =>
    \A i, j \in 1..Len(evs) :
       (TitledValue(i) /\ TitledValue(j) /\ MadeByStruct(evs[i])
          /\ C29_SyntheticOf(i, j))
         => ValueColumn(i) = ValueColumn(j)

(***************************************************************************)
(* C30 as stated: a field for which no title line is written in the object *)
(* view (a flattened field, or a field suppressed from the object view)    *)
(* does not contribute the length of its own name to the label column      *)
(* width (struct_pad) of its composite; only the labels that are written,  *)
(* and the pad requirements of the flattened children, determine it.       *)
(***************************************************************************)
RECURSIVE C30_Width(_)
\* the width the statement gives the struct n: one more than its longest
\* written label, raised to the width of every flattened child
C30_Width(n) ==
  LET d == TypeDef[n].decl
      written == {k \in 1..Len(d) :
                    ~d[k].skip /\ ~d[k].flatten /\ ~d[k].skip_description}
      inlined == {k \in 1..Len(d) : ~d[k].skip /\ d[k].flatten}
      own == IF written = {} THEN 0
             ELSE MaxOf({Len(Title(d[k].field_name)) : k \in written}) + 1
  IN MaxOf({own} \cup {C30_Width(d[k].typ.n) : k \in inlined})

\* call i writes the title of a field of the struct the render started for
C30_RootTitle(i) ==
  /\ TitledValue(i)
  /\ Len(evs[i].chain) = 1
  /\ MadeByStruct(evs[i])

C30_OnlyWrittenLabelsCount ==
  entry = "object" =>
    \A i \in 1..Len(evs) :
       C30_RootTitle(i) =>
          /\ struct_pad(T) = C30_Width(typ)
          /\ evs[i + 1].ctx.pad = C30_Width(typ)
          /\ ValueColumn(i) = C30_Width(typ) + 1

====
